---- MODULE Spec2Model ----
(***************************************************************************)
(* A model of the reduction-assessment stage of the MaNGA DAP              *)
(* (python/mangadap/proc/reductionassessments.py): the ReductionAssessment *)
(* object, its constructor and its compute method, the file system holding *)
(* the output artifacts, the DRP file object handed to compute, and the    *)
(* registry functions validate_reduction_assessment_config and             *)
(* available_reduction_assessments.  With it: the extinction utilities     *)
(* (python/mangadap/util/extinction.py) apply_reddening, reddening_vector  *)
(* and reddening_vector_fm over arrays of small floating-point numbers,    *)
(* the example drivers fit_one_spect and fit_bulge_spec                    *)
(* (examples/one_spec.py), and the batch continuum fitter they call; the   *)
(* wavelength ranges of reddening_vector_calzetti and reddening_vector_ccm,*)
(* the one-dimensional FITS spectra of python/mangadap/util/fileio.py and  *)
(* BandheadIndexDB.channel_names (python/mangadap/par/bandheadindexdb.py). *)
(***************************************************************************)
EXTENDS Integers, Sequences, FiniteSets, TLC

(***************************************************************************)
(* Values                                                                  *)
(***************************************************************************)

\* Python's None where a number (pa, ell) or a path is expected.
None == -1

\* Largest position angle the callers request.
MaxPA == 1
\* Number of spectra of the DRP file (drpf.nspec).
NSpec == 2

PAVals == {None} \cup (0 .. MaxPA)
\* Ellipticities the callers request: none, a circle, a flattened ellipse.
EllVals == {None, 0, 1}

\* The method list handed to (or found by) _define_method.
MethodList ==
  << [key |-> "RFWHM", waverange |-> "5600-6750", covariance |-> FALSE],
     [key |-> "RFWHMC", waverange |-> "5600-6750", covariance |-> TRUE] >>

MethodKeys == {MethodList[i].key : i \in 1 .. Len(MethodList)}
\* Keys a caller may ask for; "BOGUS" selects no method.
RequestedKeys == MethodKeys \cup {"BOGUS"}

\* default_dap_reference_path(...) : the single reference directory.
DefaultDir == "ref"
Dirs == {DefaultDir}
\* default_dap_file_name(plate, ifudesign, mode, key): one name per key.
DefaultFile(key) == key
FileNames == {DefaultFile(k) : k \in MethodKeys}
\* What the caller passes as output_file.
OutputFileArgs == {"None"}

\* What the caller passes as drpf.
DrpfArgs == {"None", "NotDRPFits", "DRPFits"}

\* What drpf.flux_stats returns as correlation when covar is requested:
\* a 2D covariance without or with a variance vector, or a 3D one.
CovShapes == {"2d", "2dvar", "3d"}

\* No HDUList / no file: the empty sequence; an HDUList is a non-empty one.
NoHDU == << >>

VARIABLES
  obj,        \* the ReductionAssessment object the caller holds
  fs,         \* file name -> HDUList stored in the reference directory
  dirExists,  \* whether the reference directory exists
  drp,        \* the DRPFits object: [hdu_open, nspec]
  last,       \* what the last constructor / compute call did
  cnfg,       \* a ConfigParser object given to the validation
  vres,       \* what validate_reduction_assessment_config did with cnfg
  ini_files,  \* the configuration files of the registry directory
  ares,       \* what available_reduction_assessments did with ini_files
  red,       \* the heap of arrays and the calls of apply_reddening
  ospec,     \* the call of a fit function of examples/one_spec.py
  ppxf,      \* the continuum fitter at work on a batch
  fm,        \* the call of a reddening-vector function
  curve,     \* the call of reddening_vector_calzetti or reddening_vector_ccm
  fits,      \* the file and the calls of writefits_1dspec and readfits_1dspec
  bhi        \* the database and the call of BandheadIndexDB.channel_names

raVars == << obj, fs, dirExists, drp, last >>
cfgVars == << cnfg, vres >>
regVars == << ini_files, ares >>
newVars == << red, ospec, ppxf, fm, curve, fits, bhi >>
vars == << obj, fs, dirExists, drp, last, cnfg, vres, ini_files, ares, red, ospec, ppxf, fm, curve, fits, bhi >>

\* The caller holds no object before the first successful construction.
NoObject ==
  [ constructed |-> FALSE, method |-> << >>, drpf |-> FALSE,
    directory_path |-> "None", output_file |-> "None", hardcopy |-> "None",
    pa |-> None, ell |-> None, hdu |-> NoHDU, correlation |-> "None" ]

\* ReductionAssessment.__init__, lines 401-420: attributes before compute.
NewObject(m) ==
  [ constructed |-> TRUE, method |-> << m >>, drpf |-> FALSE,
    directory_path |-> "None", output_file |-> "None", hardcopy |-> "None",
    pa |-> None, ell |-> None, hdu |-> NoHDU, correlation |-> "None" ]

NoCall ==
  [ op |-> "none", outcome |-> "none", drpf |-> "None", pa |-> None, ell |-> None,
    ofile |-> "None", hardcopy |-> FALSE, clobber |-> FALSE,
    existed |-> FALSE, reused |-> FALSE, calls |-> {}, wrote |-> FALSE,
    mkdir |-> FALSE, opened |-> FALSE, warns |-> {},
    repeat |-> FALSE, after_rewrite |-> FALSE ]

(***************************************************************************)
(* Collaborators outside the module                                        *)
(***************************************************************************)

\* _select_proc_method: the method of the list with the key, or none.
SelectProcMethod(method_key) ==
  IF \E i \in 1 .. Len(MethodList) : MethodList[i].key = method_key
  THEN << MethodList[CHOOSE i \in 1 .. Len(MethodList) : MethodList[i].key = method_key] >>
  ELSE << >>

\* os.path.isfile(ofile)
IsFile(f, de, name) == de /\ f[name] # NoHDU

\* fits.open(ofile): the HDUList stored in the file.
FitsOpen(f, name) == f[name]

\* Covariance(source=hdu, primary_ext='COVAR'): the covariance stored in the
\* COVAR extension of the file, none when the file has no such extension.
CovarianceFromHDU(hdu) ==
  IF Len(hdu) < 3 THEN "None"
  ELSE IF Len(hdu[3].columns) = 3 THEN "2dvar" ELSE "2d"

\* Covariance.binary_columns: (indx_col, covar_col, var_col, plane_col)
BinaryColumns(corr) ==
  [ indx_col |-> "INDX", covar_col |-> "COVAR",
    var_col |-> IF corr = "2d" THEN "None" ELSE "VAR",
    plane_col |-> IF corr = "3d" THEN "PLANE" ELSE "None" ]

\* write_hdu(hdu, ofile, clobber, checksum): HDUList.writeto
WriteHdu(f, name, hdu) == [f EXCEPT ![name] = hdu]

\* drpf.flux_stats(waverange, covar, correlation=True)[3]
FluxStatsCorrelation(m, shape) == IF m.covariance THEN shape ELSE "None"

(***************************************************************************)
(* ReductionAssessment                                                     *)
(***************************************************************************)

\* _per_spectrum_dtype: the column names of the SPECTRUM extension.
PerSpectrumDtype ==
  << "DRP_INDEX", "SKY_COO", "ELL_COO", "FGOODPIX", "MINEQMAX",
     "SIGNAL", "VARIANCE", "SNR" >>

\* _set_paths: directory_path and output_file, defaults when None.
SetPaths(o, directory_path, output_file) ==
  [ o EXCEPT
      !.directory_path = IF directory_path = "None" THEN DefaultDir ELSE directory_path,
      !.output_file = IF output_file = "None"
                      THEN DefaultFile(o.method[1].key) ELSE output_file ]

\* file_path: None unless both parts are defined.
FilePath(o) ==
  IF o.directory_path = "None" \/ o.output_file = "None" THEN "None"
  ELSE o.output_file

\* Lines 699-702: the primary header.
PrimaryHeader(o) == [PA |-> o.pa, ELL |-> o.ell]

\* Lines 654-689 and 713-716: the SPECTRUM extension: drpf.nspec rows, the
\* elliptical coordinates computed with self.pa and self.ell, the statistics
\* over the method's wavelength range.
SpectrumHDU(o, d) ==
  [ name |-> "SPECTRUM", nrows |-> d.nspec, columns |-> PerSpectrumDtype,
    ell_coo |-> [pa |-> o.pa, ell |-> o.ell],
    waverange |-> o.method[1].waverange ]

\* Lines 720-723: the COVAR extension.
CovarHDU(cols) ==
  [ name |-> "COVAR",
    columns |-> IF cols.var_col = "None"
                THEN << cols.indx_col, cols.covar_col >>
                ELSE << cols.indx_col, cols.var_col, cols.covar_col >> ]

\* BuildHDUList that appends the COVAR extension for every method.
BuildHDUList_AlwaysCovar(o, d, cols) ==
  << [name |-> "PRIMARY", header |-> PrimaryHeader(o)], SpectrumHDU(o, d),
     CovarHDU(cols) >>

\* Lines 704-723: the HDUList.
BuildHDUList(o, d, cols) ==
  << [name |-> "PRIMARY", header |-> PrimaryHeader(o)], SpectrumHDU(o, d) >>
  \o (IF o.method[1].covariance THEN << CovarHDU(cols) >> ELSE << >>)

\* The calls compute makes on the DRP object and the covariance object.
AssessmentCalls(m) ==
  {"mean_sky_coordinates", "copy_to_masked_array", "flux_stats"}
  \cup (IF m.covariance THEN {"binary_columns"} ELSE {})

\* Lines 617-620: the checks of drpf.
DrpfCheck(drpf) ==
  IF drpf = "None" THEN "ValueError_drpf"
  ELSE IF drpf # "DRPFits" THEN "TypeError_drpf"
  ELSE "ok"

\* OpenDrp that leaves the DRP file closed when it found it open.
OpenDrp_Toggle(d) == [d EXCEPT !.hdu_open = ~d.hdu_open]

\* Lines 621-623: an unopened DRP file is opened, with a warning.
OpenDrp(d) == IF ~d.hdu_open THEN [d EXCEPT !.hdu_open = TRUE] ELSE d

\* Assess with the write left out: hardcopy is ignored.
Assess_NoWrite(o, f, de, d, a, shape, lg) ==
  LET m == o.method[1]
      o1 == [o EXCEPT !.pa = IF a.pa # None THEN a.pa ELSE o.pa,
                      !.ell = IF a.ell # None THEN a.ell ELSE o.ell,
                      !.correlation = FluxStatsCorrelation(m, shape)]
      cols == BinaryColumns(o1.correlation)
      lg1 == [lg EXCEPT !.calls = AssessmentCalls(m)]
  IN IF m.covariance /\ cols.plane_col # "None"
     THEN [ obj |-> o1, fs |-> f, dirExists |-> de, drp |-> d,
            last |-> [lg1 EXCEPT !.outcome = "ValueError_plane"] ]
     ELSE LET o2 == [o1 EXCEPT !.hdu = BuildHDUList(o1, d, cols),
                               !.hardcopy = a.hardcopy]
          IN [ obj |-> o2, fs |-> f, dirExists |-> TRUE, drp |-> d,
               last |-> [lg1 EXCEPT !.outcome = "ok", !.mkdir = ~de] ]

\* Lines 648-730: the assessments are computed and, with hardcopy, written.
Assess(o, f, de, d, a, shape, lg) ==
  LET m == o.method[1]
      o1 == [o EXCEPT !.pa = IF a.pa # None THEN a.pa ELSE o.pa,
                      !.ell = IF a.ell # None THEN a.ell ELSE o.ell,
                      !.correlation = FluxStatsCorrelation(m, shape)]
      cols == BinaryColumns(o1.correlation)
      lg1 == [lg EXCEPT !.calls = AssessmentCalls(m)]
  IN IF m.covariance /\ cols.plane_col # "None"
     THEN [ obj |-> o1, fs |-> f, dirExists |-> de, drp |-> d,
            last |-> [lg1 EXCEPT !.outcome = "ValueError_plane"] ]
     ELSE LET o2 == [o1 EXCEPT !.hdu = BuildHDUList(o1, d, cols),
                               !.hardcopy = a.hardcopy]
          IN [ obj |-> o2,
               fs |-> IF a.hardcopy THEN WriteHdu(f, FilePath(o), o2.hdu) ELSE f,
               dirExists |-> TRUE, drp |-> d,
               last |-> [lg1 EXCEPT !.outcome = "ok", !.mkdir = ~de,
                                    !.wrote = a.hardcopy] ]

\* Reuse without its return: the file is read and the assessments are then
\* computed all the same.
Reuse_FallThrough(o, f, de, d, a, lg) ==
  LET hdu == FitsOpen(f, FilePath(o))
      o1 == [o EXCEPT !.hdu = hdu, !.correlation = CovarianceFromHDU(hdu),
                      !.pa = hdu[1].header.PA, !.ell = hdu[1].header.ELL]
  IN Assess(o1, f, de, d, a, "2d", [lg EXCEPT !.opened = TRUE])

\* Reuse that lets the requested pa and ell win over the values of the file.
Reuse_KeepRequested(o, f, de, d, a, lg) ==
  LET hdu == FitsOpen(f, FilePath(o))
      file_pa == hdu[1].header.PA
      file_ell == hdu[1].header.ELL
      o1 == [o EXCEPT !.hdu = hdu, !.correlation = CovarianceFromHDU(hdu),
                      !.pa = IF a.pa # None THEN a.pa ELSE file_pa,
                      !.ell = IF a.ell # None THEN a.ell ELSE file_ell]
      w == (IF a.pa # None /\ file_pa # a.pa THEN {"pa_differs"} ELSE {})
           \cup (IF a.ell # None /\ file_ell # a.ell THEN {"ell_differs"} ELSE {})
  IN [ obj |-> o1, fs |-> f, dirExists |-> de, drp |-> d,
       last |-> [lg EXCEPT !.outcome = "ok", !.reused = TRUE, !.opened = TRUE,
                           !.warns = lg.warns \cup w] ]

\* Lines 635-646: the output file exists and clobber is False.
Reuse(o, f, de, d, a, lg) ==
  LET hdu == FitsOpen(f, FilePath(o))
      file_pa == hdu[1].header.PA
      file_ell == hdu[1].header.ELL
      o1 == [o EXCEPT !.hdu = hdu, !.correlation = CovarianceFromHDU(hdu),
                      !.pa = file_pa, !.ell = file_ell]
      w == (IF a.pa # None /\ file_pa # a.pa THEN {"pa_differs"} ELSE {})
           \cup (IF a.ell # None /\ file_ell # a.ell THEN {"ell_differs"} ELSE {})
  IN [ obj |-> o1, fs |-> f, dirExists |-> de, drp |-> d,
       last |-> [lg EXCEPT !.outcome = "ok", !.reused = TRUE, !.opened = TRUE,
                           !.warns = lg.warns \cup w] ]

\* compute that looks at its drpf only after it has stored it and set the
\* paths.
ComputeBody_LateCheck(o, f, de, d, a, shape, lg) ==
  LET o1 == SetPaths([o EXCEPT !.drpf = a.drpf # "None"],
                     a.directory_path, a.output_file)
  IN IF DrpfCheck(a.drpf) # "ok"
     THEN [ obj |-> o1, fs |-> f, dirExists |-> de, drp |-> d,
            last |-> [lg EXCEPT !.outcome = DrpfCheck(a.drpf)] ]
     ELSE
       LET d1 == OpenDrp(d)
           ofile == FilePath(o1)
           lg1 == [lg EXCEPT !.ofile = ofile,
                             !.warns = IF d.hdu_open THEN {} ELSE {"drp_unopened"},
                             !.existed = ofile # "None" /\ IsFile(f, de, ofile)]
       IN IF IsFile(f, de, ofile) /\ ~a.clobber
          THEN Reuse(o1, f, de, d1, a, lg1)
          ELSE Assess(o1, f, de, d1, a, shape, lg1)

\* compute that reads an existing file whatever clobber says.
ComputeBody_IgnoreClobber(o, f, de, d, a, shape, lg) ==
  IF DrpfCheck(a.drpf) # "ok"
  THEN [ obj |-> o, fs |-> f, dirExists |-> de, drp |-> d,
         last |-> [lg EXCEPT !.outcome = DrpfCheck(a.drpf)] ]
  ELSE
    LET d1 == OpenDrp(d)
        o1 == SetPaths([o EXCEPT !.drpf = TRUE], a.directory_path, a.output_file)
        ofile == FilePath(o1)
        lg1 == [lg EXCEPT !.ofile = ofile,
                          !.warns = IF d.hdu_open THEN {} ELSE {"drp_unopened"},
                          !.existed = ofile # "None" /\ IsFile(f, de, ofile)]
    IN IF IsFile(f, de, ofile)
       THEN Reuse(o1, f, de, d1, a, lg1)
       ELSE Assess(o1, f, de, d1, a, shape, lg1)

\* ReductionAssessment.compute, lines 617-730, on object o.
ComputeBody(o, f, de, d, a, shape, lg) ==
  IF DrpfCheck(a.drpf) # "ok"
  THEN [ obj |-> o, fs |-> f, dirExists |-> de, drp |-> d,
         last |-> [lg EXCEPT !.outcome = DrpfCheck(a.drpf)] ]
  ELSE
    LET d1 == OpenDrp(d)
        o1 == SetPaths([o EXCEPT !.drpf = TRUE], a.directory_path, a.output_file)
        ofile == FilePath(o1)
        lg1 == [lg EXCEPT !.ofile = ofile,
                          !.warns = IF d.hdu_open THEN {} ELSE {"drp_unopened"},
                          !.existed = ofile # "None" /\ IsFile(f, de, ofile)]
    IN IF ofile = "None"
       THEN [ obj |-> o1, fs |-> f, dirExists |-> de, drp |-> d1,
              last |-> [lg1 EXCEPT !.outcome = "ValueError_path"] ]
       ELSE IF IsFile(f, de, ofile) /\ ~a.clobber
            THEN Reuse(o1, f, de, d1, a, lg1)
            ELSE Assess(o1, f, de, d1, a, shape, lg1)

\* The record of a call before it has done anything.  A call that fails the
\* checks of drpf has read none of its other arguments.
CallLog(op, a) ==
  IF DrpfCheck(a.drpf) # "ok" THEN [NoCall EXCEPT !.op = op, !.drpf = a.drpf]
  ELSE [ NoCall EXCEPT !.op = op, !.drpf = a.drpf, !.pa = a.pa, !.ell = a.ell,
                       !.hardcopy = a.hardcopy, !.clobber = a.clobber ]

\* The arguments of a call with a DRPFits object, and of a call without one
\* (whose other arguments are never read).
GoodArgs ==
  [ drpf : {"DRPFits"}, pa : PAVals, ell : EllVals,
    directory_path : {"None"}, output_file : OutputFileArgs,
    hardcopy : BOOLEAN, clobber : BOOLEAN ]

BadArgs ==
  [ drpf : DrpfArgs \ {"DRPFits"}, pa : {None}, ell : {None},
    directory_path : {"None"}, output_file : {"None"},
    hardcopy : {TRUE}, clobber : {FALSE} ]

ComputeArgs == GoodArgs \cup BadArgs

\* The covariance shapes flux_stats can return for a method.
ShapesFor(method_key) ==
  IF \E i \in 1 .. Len(MethodList) :
       MethodList[i].key = method_key /\ MethodList[i].covariance
  THEN CovShapes ELSE {"None"}

\* ReductionAssessment.__init__, lines 397-425.  A constructor that raises
\* gives the caller no object: the caller keeps what it had.
InitBody(method_key, o, f, de, d, a, shape) ==
  LET lg == CallLog("init", a) IN
  IF SelectProcMethod(method_key) = << >>
  THEN [ obj |-> o, fs |-> f, dirExists |-> de, drp |-> d,
         last |-> [NoCall EXCEPT !.op = "init", !.outcome = "KeyError_method"] ]
  ELSE LET r == ComputeBody(NewObject(SelectProcMethod(method_key)[1]),
                            f, de, d, a, shape, lg)
       IN IF r.last.outcome = "ok" THEN r ELSE [r EXCEPT !.obj = o]

(***************************************************************************)
(* Method configuration files                                               *)
(***************************************************************************)

\* An option given without a value (allow_no_value=True).
NoValue == "None"

\* The options of the 'default' section the validation looks at.
DefOptions == {"wave_limits", "par_file", "response_function_file"}
OptionNames == {"key"} \cup DefOptions

\* The values an option can have in the configurations examined.
OptionValues ==
  [ key |-> {NoValue, "RFWHM"},
    wave_limits |-> {NoValue, "5600,6750"},
    par_file |-> {NoValue, "exists.par", "missing.par"},
    response_function_file |-> {NoValue, "exists.dat", "missing.dat"} ]

AllValues == UNION {OptionValues[n] : n \in OptionNames}

\* A configuration: the options present in its 'default' section, each with
\* its value.
ConfigSet ==
  UNION { {c \in [S -> AllValues] : \A n \in S : c[n] \in OptionValues[n]} :
          S \in SUBSET OptionNames }

\* os.path.isfile(name)
ExistingFiles == {"exists.par", "exists.dat"}
IsFileName(name) == name \in ExistingFiles

\* cnfg.options('default')
Options(c) == DOMAIN c

\* numpy.sum of a list of booleans
BoolSum(bs) ==
  Cardinality({i \in 1 .. Len(bs) : bs[i]})

NotValidated == [done |-> FALSE, raised |-> "none", result |-> << >>]
Raises(e) == [done |-> TRUE, raised |-> e, result |-> << >>]
Returns(v) == [done |-> TRUE, raised |-> "none", result |-> v]

\* ValidateConfig that accepts more than one definition of the method.
ValidateConfig_AtLeastOne(c) ==
  IF "key" \notin Options(c) THEN Raises("KeyError_key")
  ELSE IF /\ "wave_limits" \notin Options(c)
          /\ "par_file" \notin Options(c)
          /\ "response_function_file" \notin Options(c)
  THEN Raises("KeyError_method")
  ELSE
    LET def_range == "wave_limits" \in Options(c) /\ c["wave_limits"] # NoValue
        def_par == "par_file" \in Options(c) /\ c["par_file"] # NoValue
        def_response == /\ "response_function_file" \in Options(c)
                        /\ c["response_function_file"] # NoValue
    IN IF BoolSum(<< def_range, def_par, def_response >>) < 1
       THEN Raises("ValueError_method")
       ELSE IF def_par /\ ~IsFileName(c["par_file"])
       THEN Raises("FileNotFoundError_par_file")
       ELSE IF def_response /\ ~IsFileName(c["response_function_file"])
       THEN Raises("FileNotFoundError_response_function_file")
       ELSE Returns(<< def_range, def_par, def_response >>)

\* validate_reduction_assessment_config, lines 192-219.
ValidateConfig(c) ==
  IF "key" \notin Options(c) THEN Raises("KeyError_key")
  ELSE IF /\ "wave_limits" \notin Options(c)
          /\ "par_file" \notin Options(c)
          /\ "response_function_file" \notin Options(c)
  THEN Raises("KeyError_method")
  ELSE
    LET def_range == "wave_limits" \in Options(c) /\ c["wave_limits"] # NoValue
        def_par == "par_file" \in Options(c) /\ c["par_file"] # NoValue
        def_response == /\ "response_function_file" \in Options(c)
                        /\ c["response_function_file"] # NoValue
    IN IF BoolSum(<< def_range, def_par, def_response >>) # 1
       THEN Raises("ValueError_method")
       ELSE IF def_par /\ ~IsFileName(c["par_file"])
       THEN Raises("FileNotFoundError_par_file")
       ELSE IF def_response /\ ~IsFileName(c["response_function_file"])
       THEN Raises("FileNotFoundError_response_function_file")
       ELSE Returns(<< def_range, def_par, def_response >>)

\* Largest number of configuration files in the registry directory.
MaxIni == 3

\* The configuration files the registry directory can hold.
IniSet ==
  { [key |-> "RFWHM", wave_limits |-> "5600,6750", in_vacuum |-> "True",
     covariance |-> "False"],
    [key |-> "RFWHM", wave_limits |-> "4000,5000", covariance |-> "True"],
    [key |-> "SNRG", wave_limits |-> "4000,5000", in_vacuum |-> "False",
     covariance |-> "True"],
    [key |-> "SNRR", par_file |-> "exists.par", covariance |-> "False"],
    [wave_limits |-> "5600,6750", covariance |-> "False"] }

\* cnfg['default'].getboolean(option)
GetBoolean(c, option) == c[option] = "True"

\* Lines 287-300: the method a configuration file defines by its wavelength
\* limits, which are converted to vacuum unless given in vacuum.
MethodOfConfig(c) ==
  LET in_vacuum == IF "in_vacuum" \notin Options(c) THEN FALSE
                   ELSE GetBoolean(c, "in_vacuum")
  IN [ key |-> c["key"],
       waverange |-> [limits |-> c["wave_limits"], airtovac |-> ~in_vacuum],
       covariance |-> GetBoolean(c, "covariance") ]

\* Lines 280-302: the loop over the configuration files, from file i on, with
\* the methods collected so far.
RECURSIVE BuildMethods(_, _, _)
BuildMethods(files, i, methods) ==
  IF i > Len(files) THEN Returns(methods)
  ELSE LET v == ValidateConfig(files[i])
       IN IF v.raised # "none" THEN Raises(v.raised)
          ELSE IF v.result[1]
          THEN BuildMethods(files, i + 1, Append(methods, MethodOfConfig(files[i])))
          ELSE Raises("ValueError_unsupported")

\* numpy.unique of the keys of a method list
UniqueKeys(methods) == {methods[i].key : i \in 1 .. Len(methods)}

\* AvailableReductionAssessments without the check of the keys.
Available_NoUniqueCheck(files) ==
  IF Len(files) = 0 THEN Raises("IOError_no_files")
  ELSE BuildMethods(files, 1, << >>)

\* available_reduction_assessments, lines 272-310.
AvailableReductionAssessments(files) ==
  IF Len(files) = 0 THEN Raises("IOError_no_files")
  ELSE LET b == BuildMethods(files, 1, << >>)
       IN IF b.raised # "none" THEN b
          ELSE IF Cardinality(UniqueKeys(b.result)) # Len(b.result)
          THEN Raises("KeyError_unique")
          ELSE b

(***************************************************************************)
(* Floating-point numbers (numpy float64, with a narrow mantissa)          *)
(***************************************************************************)

\* Width of the mantissa of the model's floating-point numbers (float64: 53).
FPrec == 3

RECURSIVE Pow2(_)
Pow2(n) == IF n <= 0 THEN 1 ELSE 2 * Pow2(n - 1)

RECURSIVE BitLen(_)
BitLen(n) == IF n = 0 THEN 0 ELSE 1 + BitLen(n \div 2)

\* A number is 0 or m * 2^e with a mantissa m of exactly FPrec bits.
Zero == [m |-> 0, e |-> 0]

\* n * 2^e (n >= 0) rounded to the nearest number, ties to the even mantissa.
Round(n, e) ==
  IF n = 0 THEN Zero
  ELSE LET b == BitLen(n) IN
       IF b <= FPrec
       THEN [m |-> n * Pow2(FPrec - b), e |-> e - (FPrec - b)]
       ELSE LET k == b - FPrec
                q == n \div Pow2(k)
                r == n % Pow2(k)
                h == Pow2(k - 1)
                q1 == IF r > h \/ (r = h /\ q % 2 = 1) THEN q + 1 ELSE q
            IN IF q1 = Pow2(FPrec)
               THEN [m |-> Pow2(FPrec - 1), e |-> e + k + 1]
               ELSE [m |-> q1, e |-> e + k]

\* a * b of two float64 numbers.
FMul(a, b) == Round(a.m * b.m, a.e + b.e)

\* a / b of two float64 numbers, b # 0: the quotient is taken with 2*FPrec+2
\* more bits and a sticky bit for the remainder, then rounded.
FDiv(a, b) ==
  IF a.m = 0 THEN Zero
  ELSE LET K == 2 * FPrec + 2
           N == a.m * Pow2(K)
           q == N \div b.m
           s == IF N % b.m = 0 THEN 0 ELSE 1
       IN Round(2 * q + s, a.e - b.e - K - 1)

\* numpy.square
FSquare(a) == FMul(a, a)

(***************************************************************************)
(* numpy arrays                                                            *)
(***************************************************************************)

\* Largest length of an axis of the arrays handed to apply_reddening.
MaxWave == 2

\* An array is [shape, data]: data holds the elements in row-major order.
Size(shape) == IF Len(shape) = 1 THEN shape[1] ELSE shape[1] * shape[2]

\* Element (i, j) of a two-dimensional array broadcast to a larger shape.
At(a, i, j) ==
  LET ii == IF a.shape[1] = 1 THEN 1 ELSE i
      jj == IF a.shape[2] = 1 THEN 1 ELSE j
  IN a.data[(ii - 1) * a.shape[2] + jj]

\* numpy broadcasting of two two-dimensional shapes.
Broadcastable(s, t) ==
  \A k \in 1 .. 2 : s[k] = t[k] \/ s[k] = 1 \/ t[k] = 1

BroadcastShape(s, t) ==
  [k \in 1 .. 2 |-> IF s[k] = 1 THEN t[k] ELSE s[k]]

\* a op b for two arrays under numpy broadcasting; op is "*" or "/".
Arith(op, x, y) == IF op = "*" THEN FMul(x, y) ELSE FDiv(x, y)

Broadcast2D(op, a, b) ==
  LET sh == BroadcastShape(a.shape, b.shape) IN
  [ shape |-> sh,
    data |-> [n \in 1 .. sh[1] * sh[2] |->
                LET i == ((n - 1) \div sh[2]) + 1
                    j == ((n - 1) % sh[2]) + 1
                IN Arith(op, At(a, i, j), At(b, i, j))] ]

\* a op b for two one-dimensional arrays of the same size.
Vector1D(op, a, b) ==
  [ shape |-> a.shape,
    data |-> [n \in 1 .. a.shape[1] |-> Arith(op, a.data[n], b.data[n])] ]

\* numpy.square of an array.
SquareArray(a) == [a EXCEPT !.data = [n \in DOMAIN a.data |-> FSquare(a.data[n])]]

\* The result of an arithmetic operation on arrays is a new array on the
\* heap: the heap with the array appended, and the reference of the array.
\* src is the reference of the left operand.
NewArray_InPlace(heap, src, a) ==
  [heap |-> [heap EXCEPT ![src] = a], ref |-> src]

NewArray(heap, src, a) ==
  [heap |-> Append(heap, a), ref |-> Len(heap) + 1]

(***************************************************************************)
(* extinction.apply_reddening                                              *)
(***************************************************************************)

\* MaNGAFits.get_spatial_shape(shape, dispaxis): the shape without the
\* dispersion axis (axes are counted from 0).
GetSpatialShape(shape, dispaxis) ==
  [k \in 1 .. Len(shape) - 1 |-> IF k <= dispaxis THEN shape[k] ELSE shape[k + 1]]

\* numpy.array([reddening_correction]*numpy.prod(spatial_shape))
\*      .reshape(*spatial_shape,-1)
\* for the one spatial axis of a two-dimensional flux.
TileCorrection(rc, spatial_shape) ==
  [ shape |-> << spatial_shape[1], rc.shape[1] >>,
    data |-> [n \in 1 .. spatial_shape[1] * rc.shape[1] |->
                rc.data[((n - 1) % rc.shape[1]) + 1]] ]

\* What a call of apply_reddening gives: the heap after it, the exception
\* raised, whether a tuple is returned, and the references of the arrays
\* returned (0: None).
Raise(heap, exc) ==
  [heap |-> heap, raised |-> exc, tuple |-> FALSE, flux |-> 0, ivar |-> 0]

\* return _flux
ReturnFlux(heap, flux, _flux) ==
  LET n == NewArray(heap, flux, _flux)
  IN [heap |-> n.heap, raised |-> "none", tuple |-> FALSE, flux |-> n.ref, ivar |-> 0]

\* return _flux, <inverse variance>
ReturnFluxIvar(heap, flux, _flux, ivar, _ivar) ==
  LET n == NewArray(heap, flux, _flux)
      v == NewArray(n.heap, ivar, _ivar)
  IN [heap |-> v.heap, raised |-> "none", tuple |-> TRUE, flux |-> n.ref, ivar |-> v.ref]

\* flux * reddening_correction if deredden else flux / reddening_correction
Corrected1D_AlwaysDeredden(f, rc, deredden) == Vector1D("*", f, rc)

Corrected1D(f, rc, deredden) ==
  IF deredden THEN Vector1D("*", f, rc) ELSE Vector1D("/", f, rc)

\* ivar / numpy.square(reddening_correction) if deredden
\*      else ivar * numpy.square(reddening_correction)
Propagated1D_NoSquare(v, rc, deredden) ==
  IF deredden THEN Vector1D("/", v, rc) ELSE Vector1D("*", v, rc)

Propagated1D(v, rc, deredden) ==
  IF deredden THEN Vector1D("/", v, SquareArray(rc))
              ELSE Vector1D("*", v, SquareArray(rc))

\* flux * c if deredden else flux / c
Corrected2D(f, c, deredden) ==
  IF deredden THEN Broadcast2D("*", f, c) ELSE Broadcast2D("/", f, c)

\* ivar / numpy.square(c) if deredden else ivar * numpy.square(c)
Propagated2D(v, c, deredden) ==
  IF deredden THEN Broadcast2D("/", v, SquareArray(c))
              ELSE Broadcast2D("*", v, SquareArray(c))

\* apply_reddening(flux, reddening_correction, dispaxis, deredden, ivar):
\* flux, reddening_correction and ivar are references into the heap, ivar = 0
\* is None.
ApplyReddening(heap, flux, reddening_correction, dispaxis, deredden, ivar) ==
  LET f == heap[flux]
      rc == heap[reddening_correction]
  IN
  IF Len(rc.shape) # 1 THEN Raise(heap, "ValueError: must be a vector")
  ELSE IF ivar # 0 /\ f.shape # heap[ivar].shape
  THEN Raise(heap, "ValueError: same shape")
  ELSE IF Len(f.shape) = 1
  THEN IF Size(f.shape) # Size(rc.shape)
       THEN Raise(heap, "ValueError: same number of wavelengths")
       ELSE LET _flux == Corrected1D(f, rc, deredden)
            IN IF ivar = 0 THEN ReturnFlux(heap, flux, _flux)
               ELSE ReturnFluxIvar(heap, flux, _flux, ivar,
                                   Propagated1D(heap[ivar], rc, deredden))
  ELSE IF dispaxis = None THEN Raise(heap, "ValueError: must provide dispersion axis")
  ELSE LET spatial_shape == GetSpatialShape(f.shape, dispaxis)
           c == TileCorrection(rc, spatial_shape)
       IN IF ~Broadcastable(f.shape, c.shape)
          THEN Raise(heap, "ValueError: operands could not be broadcast")
          ELSE LET _flux == Corrected2D(f, c, deredden)
               IN IF ivar = 0 THEN ReturnFlux(heap, flux, _flux)
                  ELSE ReturnFluxIvar(heap, flux, _flux, ivar,
                                      Propagated2D(heap[ivar], c, deredden))

\* The values of the arrays of a caller.
FluxSeq == << Round(5, 0 - 2), Round(7, 0 - 2), Zero, Round(3, 0 - 1) >>
IvarSeq == << Round(1, 0), Zero, Round(5, 0 - 1) >>
CorrSeq == << Round(3, 0 - 1), Round(5, 0 - 2), Round(1, 1) >>

\* An array of a shape whose elements run through seq from offset off.
ArrayOf(shape, seq, off) ==
  [ shape |-> shape,
    data |-> [n \in 1 .. Size(shape) |-> seq[((n + off - 1) % Len(seq)) + 1]] ]

Shapes1D == {<< n >> : n \in 1 .. MaxWave}
Shapes2D == {<< a, b >> : a, b \in 1 .. MaxWave}
FluxArrays == {ArrayOf(s, FluxSeq, k) : s \in Shapes1D \cup Shapes2D, k \in 0 .. 1}
\* The correction is a vector, or by mistake a two-dimensional array.
CorrArrays == {ArrayOf(s, CorrSeq, k) : s \in Shapes1D \cup {<< 1, MaxWave >>},
                                        k \in 0 .. 2}
IvarArrays == {ArrayOf(s, IvarSeq, k) : s \in Shapes1D \cup Shapes2D, k \in 0 .. 1}

\* The calls a caller makes: a flux, a correction, and no inverse variance or
\* one of any shape; the dispersion axis is None or an axis of the flux.
ReddeningCalls ==
  { [heap |-> IF v = << >> THEN << f, r >> ELSE << f, r, v[1] >>,
     flux |-> 1, rc |-> 2, ivar |-> IF v = << >> THEN 0 ELSE 3,
     dispaxis |-> d, deredden |-> dr] :
      f \in FluxArrays, r \in CorrArrays,
      v \in {<< >>} \cup {<< a >> : a \in IvarArrays},
      d \in {None, 0, 1}, dr \in BOOLEAN }

\* Nothing has been called.
RedIdle ==
  [ heap |-> << >>, first |-> << >>, args |-> << >>, calls |-> 0,
    out |-> Raise(<< >>, "none") ]

(***************************************************************************)
(* examples/one_spec.py: the inputs of the fit                             *)
(***************************************************************************)

\* Largest number of pixels of the spectrum handed to the fit functions.
MaxPix == 2

\* A value of a numpy array: a rational number n/d, nan, inf, or the fill
\* value of a masked array.
Num(n, d) == [k |-> "num", n |-> n, d |-> d]
NaN == [k |-> "nan", n |-> 0, d |-> 1]
Inf == [k |-> "inf", n |-> 0, d |-> 1]
FillValue == [k |-> "fill", n |-> 0, d |-> 1]

ISqrt(n) == CHOOSE r \in 0 .. n : r * r = n

\* numpy.power(x, -0.5) of one value, with divide and invalid ignored.
PowerMinusHalf(x) ==
  IF x.k = "nan" THEN NaN
  ELSE IF x.k = "inf" THEN Num(0, 1)
  ELSE IF x.n = 0 THEN Inf
  ELSE IF x.n < 0 THEN NaN
  ELSE Num(ISqrt(x.d), ISqrt(x.n))

\* numpy.isfinite
IsFinite(x) == x.k \in {"num", "fill"}

\* numpy.ma.power(a, -0.5): the power where a is not masked, the data of a
\* where it is; what is not finite is masked and set to the fill value.
MaPower(a) ==
  LET result == [i \in DOMAIN a.data |->
                   IF a.mask[i] THEN a.data[i] ELSE PowerMinusHalf(a.data[i])]
      invalid == [i \in DOMAIN a.data |-> ~IsFinite(result[i])]
  IN [ shape |-> a.shape,
       data |-> [i \in DOMAIN a.data |-> IF invalid[i] THEN FillValue ELSE result[i]],
       mask |-> [i \in DOMAIN a.data |-> a.mask[i] \/ invalid[i]] ]

\* a.reshape(1,-1)
Reshape1Row(a) == [a EXCEPT !.shape = << 1, Len(a.data) >>]

\* ferr = numpy.ma.power(ivar, -0.5).reshape(1,-1)
Ferr_PlainPower(ivar) ==
  Reshape1Row([ shape |-> ivar.shape,
                data |-> [i \in DOMAIN ivar.data |-> PowerMinusHalf(ivar.data[i])],
                mask |-> [i \in DOMAIN ivar.data |-> FALSE] ])

Ferr(ivar) == Reshape1Row(MaPower(ivar))

\* PPXFFit.fit(...) as fit_one_spect calls it: the fit of the one-row batch.
PPXFFitFit(flux, ferr) == [events |-> << "optimizer" >>, raised |-> "none"]

\* PPXFFit_frac.fit(..., frac, ...): the fraction vector is checked against
\* the number of spectra and against [0,1] (in tenths) before the fit.
PPXFFitFracFit(flux, ferr, frac) ==
  IF Len(frac) # flux.shape[1] \/ \E i \in DOMAIN frac : frac[i] < 0 \/ frac[i] > 10
  THEN [events |-> << >>, raised |-> "ConfigurationError"]
  ELSE [events |-> << "optimizer" >>, raised |-> "none"]

\* What a call of a fit function did: what it called, in order, the exception
\* raised, and the arrays it built for the fit.
NoArray == [shape |-> << >>, data |-> << >>, mask |-> << >>]
FitCall(events, raised, flux, ferr) ==
  [events |-> events, raised |-> raised, flux |-> flux, ferr |-> ferr]

\* fit_one_spect(plt, ifu, flux, ivar, wave, drpf)
FitOneSpect(flux, ivar) ==
  LET _flux == Reshape1Row(flux)
      ferr == Ferr(ivar)
      fit == PPXFFitFit(_flux, ferr)
  IN FitCall(<< "spectral_resolution", "reshape", "ferr", "SpectralPixelMask",
                "TemplateLibrary", "PPXFFit.fit" >> \o fit.events,
             fit.raised, _flux, ferr)

\* fit_bulge_spec(plt, ifu, frac, wave, flux, ivar, sres); found: the drpall
\* file has a row for plt-ifu.
FitBulgeSpec(frac, flux, ivar, found) ==
  IF ~found
  THEN FitCall(<< "get_redshift" >>, "IndexError", NoArray, NoArray)
  ELSE LET _flux == Reshape1Row(flux)
           ferr == Ferr(ivar)
           fit == PPXFFitFracFit(_flux, ferr, frac)
       IN FitCall(<< "get_redshift", "reshape", "ferr", "SpectralPixelMask",
                     "TemplateLibrary", "PPXFFit_frac.fit" >> \o fit.events,
                  fit.raised, _flux, ferr)

\* The inverse variances of a pixel: positive, zero, negative, undefined.
IvarValues == {Num(4, 1), Num(1, 4), Num(0, 1), Num(0 - 4, 1), NaN}
\* The spectra handed to the functions: masked arrays of 1 .. MaxPix pixels.
IvarInputs ==
  UNION { { [shape |-> << n >>, data |-> d, mask |-> m] :
              d \in [1 .. n -> IvarValues], m \in [1 .. n -> BOOLEAN] } :
          n \in 1 .. MaxPix }
\* The flux of the same spectrum.
FluxFor(ivar) ==
  [shape |-> ivar.shape, data |-> [i \in DOMAIN ivar.data |-> Num(1, 1)],
   mask |-> [i \in DOMAIN ivar.data |-> FALSE]]
\* The fraction vectors handed to fit_bulge_spec, in tenths.
FracArgs ==
  { << >>, << 0 >>, << 5 >>, << 10 >>, << 11 >>, << 0 - 1 >>, << 5, 5 >>, << 5, 11 >> }

\* No fit function has been called.
OneSpecIdle ==
  [ fn |-> "none", frac |-> << >>, ivar |-> NoArray, found |-> FALSE,
    done |-> FALSE, out |-> FitCall(<< >>, "none", NoArray, NoArray) ]

(***************************************************************************)
(* The continuum fitter (PPXFFit.fit) and its rejection iteration          *)
(***************************************************************************)

\* Largest number of spectra of a batch.
MaxBatch == 2
\* Number of pixels of a spectrum.
NPixFit == 3
\* The configured maximum number of fit passes of one spectrum.
MaxIter == 2
\* The configured maximum fraction of pixels the rejection may remove, as a
\* number of pixels.
MaxRejected == 1

\* The result slot of an element whose fit did not converge.
Sentinel == [flag |-> TRUE, el |-> 0, nrej |-> 0, conv |-> FALSE, fits |-> 0]
\* A converged fit of element el with nrej pixels removed.
FitResult(el, nrej) ==
  [flag |-> FALSE, el |-> el, nrej |-> nrej, conv |-> TRUE, fits |-> 0]

\* One run of the optimizer on the current element: it converges or not.
\* After a converged run the rejection goes on if it is configured and the
\* maximum number of passes is not reached; otherwise the element is done.
FitStep(p, conv) ==
  [p EXCEPT !.iter = @ + 1,
            !.good = IF conv THEN FitResult(p.batch[p.i].id, p.nrej) ELSE @,
            !.pc = IF conv /\ p.mode = "wrej" /\ p.iter + 1 < MaxIter
                   THEN "reject" ELSE "store"]

\* The residuals of the last fit flag k new pixels: none ends the iteration,
\* and so does a number that would exceed the maximum fraction; otherwise the
\* pixels are masked and the element is fit again.
RejectStep_NoCap(p, k) ==
  IF k = 0 THEN [p EXCEPT !.pc = "store"]
  ELSE [p EXCEPT !.nrej = @ + k, !.pc = "fit"]

RejectStep(p, k) ==
  IF k = 0 \/ p.nrej + k > MaxRejected
  THEN [p EXCEPT !.pc = "store"]
  ELSE [p EXCEPT !.nrej = @ + k, !.pc = "fit"]

\* The element is done: its slot gets the last converged result, or the
\* sentinel if no fit converged; the fitter goes to the next element or
\* returns.
StoreStep_KeepGood(p) ==
  [p EXCEPT !.results = Append(@, [p.good EXCEPT !.fits = p.iter]),
            !.i = @ + 1, !.iter = 0, !.nrej = 0,
            !.pc = IF p.i + 1 > Len(p.batch) THEN "returned" ELSE "fit"]

StoreStep(p) ==
  [p EXCEPT !.results = Append(@, [p.good EXCEPT !.fits = p.iter]),
            !.i = @ + 1, !.iter = 0, !.nrej = 0, !.good = Sentinel,
            !.pc = IF p.i + 1 > Len(p.batch) THEN "returned" ELSE "fit"]

\* The batches handed to the fitter: 1 .. MaxBatch spectra, each with a valid
\* error vector or with an all-zero inverse variance.
Batches ==
  UNION { { [k \in 1 .. n |-> [id |-> k, zero_ivar |-> z[k]]] :
              z \in [1 .. n -> BOOLEAN] } : n \in 1 .. MaxBatch }

\* The fitter has not been called.
FitIdle ==
  [ batch |-> << >>, mode |-> "none", i |-> 0, iter |-> 0, nrej |-> 0,
    good |-> Sentinel,
    results |-> << >>, pc |-> "idle" ]

(***************************************************************************)
(* extinction.reddening_vector and the Fitzpatrick & Massa coefficients    *)
(***************************************************************************)

\* R_V in hundredths: default_calzetti_rv, default_ccm_rv, default_fm_rv.
DefaultCalzettiRv == 405
DefaultCcmRv == 310
DefaultFmRv == 310

\* An FMExtinctionCoefficients object: its class and its six coefficients in
\* thousandths.
Coefficients(cls, k0, gamma, c1, c2, c3, c4) ==
  [cls |-> cls, k0 |-> k0, gamma |-> gamma, c1 |-> c1, c2 |-> c2, c3 |-> c3, c4 |-> c4]

\* FMExtinctionCoefficients.from_Rv(rv), rv in hundredths; the quotients are
\* truncated to thousandths.
FromRv(rv) ==
  LET c2 == (0 - 824) + (471700 \div rv)
  IN Coefficients("FMExtinctionCoefficients", 4596, 990,
                  2030 - ((3007 * c2) \div 1000), c2, 3230, 410)

\* AvgLMCExtinctionCoefficients(), LMC2ExtinctionCoefficients()
AvgLMC ==
  Coefficients("AvgLMCExtinctionCoefficients", 4626, 1050, 0 - 2160, 1310, 1920, 420)
LMC2 ==
  Coefficients("LMC2ExtinctionCoefficients", 4596, 910, 0 - 1280, 1110, 2730, 640)

\* coeffs = None, and an object that is no FMExtinctionCoefficients.
NoCoeffs == Coefficients("None", 0, 0, 0, 0, 0, 0)
NotCoeffs == Coefficients("tuple", 4596, 990, 0, 697, 3230, 410)

\* The classes derived from FMExtinctionCoefficients, and the class itself.
FMClasses ==
  {"FMExtinctionCoefficients", "AvgLMCExtinctionCoefficients",
   "LMC2ExtinctionCoefficients"}

\* What a reddening-vector function gives: the exception raised, the function
\* that computed the curve, and the R_V and the coefficients it used.
VectorRaised(exc) ==
  [raised |-> exc, law |-> "none", rv |-> 0, coeffs |-> NoCoeffs]
VectorOf(law, rv, coeffs) ==
  [raised |-> "none", law |-> law, rv |-> rv, coeffs |-> coeffs]

\* The checks of wave and ebv that open each reddening-vector function:
\* numpy.atleast_1d(wave) must be a vector, ebv a float.
CheckShapes(wave, ebv) ==
  IF wave = "2d" THEN "ValueError: single wavelength vector"
  ELSE IF ebv # "float" THEN "TypeError: single float"
  ELSE "none"

\* reddening_vector_calzetti(wave, ebv, rv)
ReddeningVectorCalzetti(wave, ebv, rv) ==
  IF CheckShapes(wave, ebv) # "none" THEN VectorRaised(CheckShapes(wave, ebv))
  ELSE VectorOf("Calzetti", IF rv = None THEN DefaultCalzettiRv ELSE rv, NoCoeffs)

\* reddening_vector_ccm(wave, ebv, rv, original)
ReddeningVectorCcm(wave, ebv, rv, original) ==
  IF CheckShapes(wave, ebv) # "none" THEN VectorRaised(CheckShapes(wave, ebv))
  ELSE VectorOf(IF original THEN "CCM" ELSE "ODonnell",
                IF rv = None THEN DefaultCcmRv ELSE rv, NoCoeffs)

\* isinstance(FMExtinctionCoefficients): the built-in called with one
\* argument raises TypeError.
IsInstanceOneArgument == "TypeError: isinstance expected 2 arguments, got 1"

\* reddening_vector_fm(wave, ebv, rv, coeffs)
ReddeningVectorFm(wave, ebv, rv, coeffs) ==
  IF CheckShapes(wave, ebv) # "none" THEN VectorRaised(CheckShapes(wave, ebv))
  ELSE IF coeffs # NoCoeffs
  THEN VectorRaised(IsInstanceOneArgument)
  ELSE LET _rv == IF rv = None THEN DefaultFmRv ELSE rv
           _coeffs == IF coeffs = NoCoeffs THEN FromRv(_rv) ELSE coeffs
       IN VectorOf("FM", _rv, _coeffs)

\* reddening_vector(wave, ebv, form, rv, coeffs)
ReddeningVector(wave, ebv, form, rv, coeffs) ==
  IF form = "ODonnell" THEN ReddeningVectorCcm(wave, ebv, rv, FALSE)
  ELSE IF form = "CCM" THEN ReddeningVectorCcm(wave, ebv, rv, TRUE)
  ELSE IF form = "FM" THEN ReddeningVectorFm(wave, ebv, rv, coeffs)
  ELSE IF form = "Calzetti" THEN ReddeningVectorCalzetti(wave, ebv, rv)
  ELSE VectorRaised("ValueError: Unrecognized form of the extinction law")

\* The arguments of a caller: wave a scalar, a vector or a two-dimensional
\* array; ebv a float, an int or an array; R_V None or a value; coeffs None,
\* an object of one of the three classes, or another object; the function
\* called is reddening_vector with a form, or reddening_vector_fm itself.
RvArgs == {None, 310, 250}
CoeffsArgs == {NoCoeffs, FromRv(250), AvgLMC, LMC2, NotCoeffs}
FormArgs == {"ODonnell", "CCM", "FM", "Calzetti", "Cardelli"}
VectorCalls ==
  [ fn : {"reddening_vector", "reddening_vector_fm"},
    wave : {"scalar", "1d", "2d"}, ebv : {"float", "int", "array"},
    form : FormArgs, rv : RvArgs, coeffs : CoeffsArgs ]

\* No reddening vector has been asked for.
VectorIdle ==
  [ args |-> [fn |-> "none", wave |-> "1d", ebv |-> "float", form |-> "ODonnell",
              rv |-> None, coeffs |-> NoCoeffs],
    done |-> FALSE, out |-> VectorRaised("none") ]

(***************************************************************************)
(* extinction.reddening_vector_calzetti and reddening_vector_ccm: the      *)
(* wavelength ranges and the mask of the returned curve                     *)
(***************************************************************************)

\* Largest number of wavelengths in the vector of a caller.
MaxCurve == 2

\* The comparisons of numpy on floats: every comparison with nan is False.
Less(x, y) ==
  /\ x.k # "nan" /\ y.k # "nan"
  /\ x.k # "inf"
  /\ y.k = "inf" \/ x.n * y.d < y.n * x.d
LessEqual(x, y) ==
  /\ x.k # "nan" /\ y.k # "nan"
  /\ y.k = "inf" \/ (x.k # "inf" /\ x.n * y.d <= y.n * x.d)
Greater(x, y) == Less(y, x)
GreaterEqual(x, y) == LessEqual(y, x)

\* k = 1e4/_wave, the wavenumber in 1/micron of a wavelength in angstroms,
\* with 1e4/0 = inf.
Wavenumber(w) ==
  IF w.k = "nan" THEN NaN
  ELSE IF w.n = 0 THEN Inf
  ELSE IF w.n > 0 THEN Num(10000 * w.d, w.n)
  ELSE Num(0 - (10000 * w.d), 0 - w.n)

\* The elements of a vector selected by a boolean vector.
Selected(sel) == {i \in DOMAIN sel : sel[i]}

\* ext[sel] = numpy.ma.masked and ext[sel] = values on a masked array whose
\* mask is m: the first masks the selected elements, the second unmasks them.
SetMasked(m, sel) == [i \in DOMAIN m |-> m[i] \/ sel[i]]
SetValues(m, sel) == [i \in DOMAIN m |-> m[i] /\ ~sel[i]]

\* The statements that gave each element its value.
Writers(names, sels) ==
  [i \in DOMAIN sels[1] |-> {names[j] : j \in {j \in DOMAIN sels : sels[j][i]}}]

\* reddening_vector_calzetti: w1 and w2 of one wavelength.
CalzettiW1(w) == Greater(w, Num(6300, 1)) /\ Less(w, Num(22000, 1))
CalzettiW2_Open(w) == Greater(w, Num(912, 1)) /\ Less(w, Num(6300, 1))
CalzettiW2(w) == Greater(w, Num(912, 1)) /\ LessEqual(w, Num(6300, 1))

\* reddening_vector_calzetti(wave, ebv, rv) for a wavelength vector and a
\* float ebv: the warning, the mask of the returned array, and the branch
\* (w1: long wavelengths, w2: short wavelengths) that computed each element.
CalzettiCurve(wave) ==
  LET w1 == [i \in DOMAIN wave |-> CalzettiW1(wave[i])]
      w2 == [i \in DOMAIN wave |-> CalzettiW2(wave[i])]
      none == [i \in DOMAIN wave |-> ~w1[i] /\ ~w2[i]]
      zeros == [i \in DOMAIN wave |-> FALSE]
  IN [ warned |-> Cardinality(Selected(w1)) + Cardinality(Selected(w2)) # Len(wave),
       mask |-> SetValues(SetValues(SetMasked(zeros, none), w1), w2),
       by |-> Writers(<<"w1", "w2">>, <<w1, w2>>) ]

\* reddening_vector_ccm: the four portions of the curve, of one wavenumber.
CcmInfrared(k) == Greater(k, Num(3, 10)) /\ Less(k, Num(11, 10))
CcmOptical(k) == GreaterEqual(k, Num(11, 10)) /\ Less(k, Num(33, 10))
CcmMidUV(k) == GreaterEqual(k, Num(33, 10)) /\ Less(k, Num(8, 1))
CcmFarUV(k) == GreaterEqual(k, Num(8, 1)) /\ LessEqual(k, Num(11, 1))
CcmMasked(k) == LessEqual(k, Num(3, 10)) \/ Greater(k, Num(11, 1))

\* reddening_vector_ccm(wave, ebv, rv, original) for a wavelength vector and
\* a float ebv: the mask of the returned array and the portions that wrote
\* a and b of each element (none: a = b = 0 as initialised).
CcmCurve(wave) ==
  LET k == [i \in DOMAIN wave |-> Wavenumber(wave[i])]
      ir == [i \in DOMAIN wave |-> CcmInfrared(k[i])]
      opt == [i \in DOMAIN wave |-> CcmOptical(k[i])]
      mid == [i \in DOMAIN wave |-> CcmMidUV(k[i])]
      far == [i \in DOMAIN wave |-> CcmFarUV(k[i])]
      zeros == [i \in DOMAIN wave |-> FALSE]
  IN [ warned |-> FALSE,
       mask |-> SetMasked(zeros, [i \in DOMAIN wave |-> CcmMasked(k[i])]),
       by |-> Writers(<<"infrared", "optical", "mid-UV", "far-UV">>,
                      <<ir, opt, mid, far>>) ]

\* The wavelengths of a caller, in angstroms: around the limits of the
\* Calzetti branches, around the limits of the CCM portions (10000/k), the
\* documented ends of the CCM range, zero, a negative value and nan.
CalzettiWaves ==
  {Num(0, 1), Num(911, 1), Num(912, 1), Num(913, 1), Num(6299, 1), Num(6300, 1),
   Num(6301, 1), Num(21999, 1), Num(22000, 1), Num(22001, 1), NaN}
CcmWaves ==
  {Num(0 - 5000, 1), Num(0, 1), Num(900, 1), Num(10000, 11), Num(950, 1),
   Num(1000, 1), Num(1250, 1), Num(100000, 33), Num(5000, 1), Num(100000, 11),
   Num(20000, 1), Num(100000, 3), Num(34000, 1), Num(35000, 1), Num(36000, 1),
   NaN}
WaveVectors(S) == UNION {[1 .. n -> S] : n \in 1 .. MaxCurve}

\* No curve has been asked for.
CurveIdle ==
  [ law |-> "none", wave |-> << >>, done |-> FALSE,
    out |-> [warned |-> FALSE, mask |-> << >>, by |-> << >>] ]

(***************************************************************************)
(* fileio.writefits_1dspec, readfits_1dspec and wavelength_vector           *)
(***************************************************************************)

\* Significant digits of a floating-point value in a header card (astropy
\* writes 16 for float64, one fewer than a float64 needs to be recovered;
\* here one fewer than a number of FPrec bits needs).
HeaderDigits == 1

RECURSIVE Pow10(_)
Pow10(n) == IF n <= 0 THEN 1 ELSE 10 * Pow10(n - 1)

RECURSIVE DecLen(_)
DecLen(n) == IF n = 0 THEN 0 ELSE 1 + DecLen(n \div 10)

\* a + b of two float64 numbers.
FAdd(a, b) ==
  LET e == IF a.e < b.e THEN a.e ELSE b.e
  IN Round(a.m * Pow2(a.e - e) + b.m * Pow2(b.e - e), e)

\* The value of a whole number.
IntValue(x) == IF x.e >= 0 THEN x.m * Pow2(x.e) ELSE x.m \div Pow2(0 - x.e)

\* The card of a float in a header: the value in decimal, rounded to
\* HeaderDigits significant digits (ties to even), as digits * 10^exp10.
FormatCard(x) ==
  LET v == IntValue(x)
      L == DecLen(v)
  IN IF L <= HeaderDigits THEN [digits |-> v, exp10 |-> 0]
     ELSE LET s == Pow10(L - HeaderDigits)
              q == v \div s
              r == v % s
              h == s \div 2
          IN [ digits |-> IF r > h \/ (r = h /\ q % 2 = 1) THEN q + 1 ELSE q,
               exp10 |-> L - HeaderDigits ]

\* The float read from a card: the float64 nearest to the decimal value.
ParseCard(c) == Round(c.digits * Pow10(c.exp10), 0)

\* numpy.power(10., x)
Power10(x) == [pow10 |-> x]

\* No file of the name, and a file.
NoFits == [nhdu |-> 0, naxis |-> 0, header |-> << >>, data |-> << >>]
FitsFile(nhdu, header, array) ==
  [nhdu |-> nhdu, naxis |-> Len(array.shape), header |-> header, data |-> array.data]

\* The header writefits_1dspec builds, as written to the file.
SpecHeader(crval1, cdelt1) ==
  [ CRPIX1 |-> 1, CRVAL1 |-> FormatCard(crval1), CDELT1 |-> FormatCard(cdelt1),
    CD1_1 |-> FormatCard(cdelt1) ]

\* writefits_1dspec(ofile, crval1, cdelt1, flux, clobber): the file after the
\* call and the exception raised; an existing file is replaced only with
\* clobber.
WriteFits1dSpec(file, crval1, cdelt1, flux, clobber) ==
  IF file # NoFits /\ ~clobber
  THEN [file |-> file, raised |-> "OSError: file exists"]
  ELSE [file |-> FitsFile(1, SpecHeader(crval1, cdelt1), flux), raised |-> "none"]

\* wavelength_vector(npix, header, log10), header as read from the file.
WavelengthVector_FromZero(npix, header, log10) ==
  LET crval == ParseCard(header.CRVAL1)
      cdelt == ParseCard(header.CDELT1)
      wave == [i \in 1 .. npix |-> FAdd(FMul(Round(i, 0), cdelt), crval)]
  IN IF log10 THEN [i \in 1 .. npix |-> Power10(wave[i])] ELSE wave

WavelengthVector(npix, header, log10) ==
  LET crval == ParseCard(header.CRVAL1)
      crpix == header.CRPIX1
      cdelt == ParseCard(header.CDELT1)
      wave == [i \in 1 .. npix |-> FAdd(FMul(Round(i - crpix, 0), cdelt), crval)]
  IN IF log10 THEN [i \in 1 .. npix |-> Power10(wave[i])] ELSE wave

\* readfits_1dspec(filename, log10): the exception raised, or wave and spec.
ReadFits1dSpec(file, log10) ==
  IF file.nhdu # 1
  THEN [raised |-> "Exception: more than one extension", wave |-> << >>, spec |-> << >>]
  ELSE IF file.naxis # 1
  THEN [raised |-> "Exception: not one dimensional", wave |-> << >>, spec |-> << >>]
  ELSE [ raised |-> "none",
         wave |-> WavelengthVector(Len(file.data), file.header, log10),
         spec |-> file.data ]

\* The arguments of a caller: crval1 and cdelt1 whole numbers, some with
\* more significant digits than a card holds; flux a vector or, by mistake,
\* a two-dimensional array.
Crval1Args ==
  {Round(5, 0), Round(12, 0), Round(14, 0), Round(24, 0), Round(104, 0), Round(112, 0)}
Cdelt1Args == {Round(1, 0), Round(3, 0), Round(12, 0)}
WriteCalls ==
  [ crval1 : Crval1Args, cdelt1 : Cdelt1Args, flux : FluxArrays,
    clobber : BOOLEAN, log10 : BOOLEAN ]

\* A file of another writer, with a second extension.
OtherFile ==
  FitsFile(2, SpecHeader(Round(5, 0), Round(1, 0)), ArrayOf(<< 1 >>, FluxSeq, 0))

\* Nothing written or read.
FitsIdle ==
  [ args |-> [crval1 |-> Zero, cdelt1 |-> Zero, flux |-> ArrayOf(<< 1 >>, FluxSeq, 0),
              clobber |-> TRUE, log10 |-> FALSE],
    file |-> NoFits, pc |-> "idle", wrote |-> "none",
    out |-> [raised |-> "none", wave |-> << >>, spec |-> << >>] ]

(***************************************************************************)
(* bandheadindexdb.BandheadIndexDB.channel_names                             *)
(***************************************************************************)

\* Largest number of features of a database, and largest offset asked for.
MaxFeatures == 3
MaxOffset == 2

\* The names a feature of the database can have.
FeatureNames == {"D4000", "Dn4000", "TiOCvD"}

\* d[key] = value on a dictionary, kept as a set of << key, value >>.
SetItem(d, key, value) == {p \in d : p[1] # key} \cup {<< key, value >>}

\* {name[i] : i + offset for i in range(size)} after the first n features;
\* the features are numbered from 1 here, from 0 in the code.
RECURSIVE DictOfFirst_NoOffset(_, _, _)
DictOfFirst_NoOffset(name, offset, n) ==
  IF n = 0 THEN {}
  ELSE SetItem(DictOfFirst_NoOffset(name, offset, n - 1), name[n], n - 1)

RECURSIVE DictOfFirst(_, _, _)
DictOfFirst(name, offset, n) ==
  IF n = 0 THEN {}
  ELSE SetItem(DictOfFirst(name, offset, n - 1), name[n], (n - 1) + offset)

\* BandheadIndexDB.channel_names(offset) on a database with the names
\* self.data['name'] and self.size features.
ChannelNames(db, offset) == DictOfFirst(db.name, offset, db.size)

\* The databases _parse_yanny builds: at least one feature, any names.
Databases ==
  {[name |-> s, size |-> Len(s)] :
     s \in UNION {[1 .. n -> FeatureNames] : n \in 1 .. MaxFeatures}}

\* No database.
BandheadIdle ==
  [db |-> [name |-> << >>, size |-> 0], offset |-> 0, done |-> FALSE, out |-> {}]

(***************************************************************************)
(* The calls of a caller                                                    *)
(***************************************************************************)

\* The arguments of two calls are the same.
SameArgs(l1, l2) ==
  /\ l1.drpf = l2.drpf /\ l1.pa = l2.pa /\ l1.ell = l2.ell
  /\ l1.ofile = l2.ofile /\ l1.hardcopy = l2.hardcopy /\ l1.clobber = l2.clobber

\* History kept with the record of a call: whether the call before it had the
\* same arguments, and whether the call before it rewrote the same file.
Annotate(lg, prev) ==
  [ lg EXCEPT
      !.repeat = prev.op # "none" /\ SameArgs(prev, lg),
      !.after_rewrite = /\ prev.outcome = "ok" /\ prev.clobber /\ prev.existed
                        /\ prev.wrote /\ prev.ofile = lg.ofile ]

Apply(r) ==
  /\ obj' = r.obj
  /\ fs' = r.fs
  /\ dirExists' = r.dirExists
  /\ drp' = r.drp
  /\ last' = Annotate(r.last, last)

\* obj = ReductionAssessment(method_key, drpf, ...)
Construct ==
  /\ ~obj.constructed
  /\ \E method_key \in RequestedKeys, a \in ComputeArgs :
       \E shape \in ShapesFor(method_key) :
         Apply(InitBody(method_key, obj, fs, dirExists, drp, a, shape))
  /\ UNCHANGED << cfgVars, regVars, newVars >>

\* obj.compute(drpf, ...)
Compute ==
  /\ obj.constructed
  /\ \E a \in ComputeArgs, shape \in ShapesFor(obj.method[1].key) :
       Apply(ComputeBody(obj, fs, dirExists, drp, a, shape, CallLog("compute", a)))
  /\ UNCHANGED << cfgVars, regVars, newVars >>

Next == Construct \/ Compute

\* No object, no output file, no reference directory; a DRP file that has or
\* has not been opened.  The configuration variables are not in use.
Init ==
  /\ obj = NoObject
  /\ fs = [n \in FileNames |-> NoHDU]
  /\ dirExists = FALSE
  /\ drp \in [hdu_open : BOOLEAN, nspec : {NSpec}]
  /\ last = NoCall
  /\ cnfg = << >>
  /\ vres = NotValidated
  /\ ini_files = << >>
  /\ ares = NotValidated
  /\ red = RedIdle
  /\ ospec = OneSpecIdle
  /\ ppxf = FitIdle
  /\ fm = VectorIdle
  /\ curve = CurveIdle
  /\ fits = FitsIdle
  /\ bhi = BandheadIdle

Spec == Init /\ [][Next]_vars

(***************************************************************************)
(* validate_reduction_assessment_config                                    *)
(***************************************************************************)

\* Validate: validate_reduction_assessment_config(cnfg)
Validate ==
  /\ ~vres.done
  /\ vres' = ValidateConfig(cnfg)
  /\ UNCHANGED << cnfg, raVars, regVars, newVars >>

NextValidate == Validate

\* Any configuration, not yet validated.
InitValidate ==
  /\ cnfg \in ConfigSet
  /\ vres = NotValidated
  /\ obj = NoObject
  /\ fs = [n \in FileNames |-> NoHDU]
  /\ dirExists = FALSE
  /\ drp = [hdu_open |-> FALSE, nspec |-> NSpec]
  /\ last = NoCall
  /\ ini_files = << >>
  /\ ares = NotValidated
  /\ red = RedIdle
  /\ ospec = OneSpecIdle
  /\ ppxf = FitIdle
  /\ fm = VectorIdle
  /\ curve = CurveIdle
  /\ fits = FitsIdle
  /\ bhi = BandheadIdle

SpecValidate == InitValidate /\ [][NextValidate]_vars

(***************************************************************************)
(* available_reduction_assessments                                         *)
(***************************************************************************)

\* Available: available_reduction_assessments(dapsrc)
Available ==
  /\ ~ares.done
  /\ ares' = AvailableReductionAssessments(ini_files)
  /\ UNCHANGED << ini_files, raVars, cfgVars, newVars >>

NextRegistry == Available

\* Any registry directory of at most MaxIni configuration files.
InitRegistry ==
  /\ ini_files \in UNION {[1 .. n -> IniSet] : n \in 0 .. MaxIni}
  /\ ares = NotValidated
  /\ obj = NoObject
  /\ fs = [n \in FileNames |-> NoHDU]
  /\ dirExists = FALSE
  /\ drp = [hdu_open |-> FALSE, nspec |-> NSpec]
  /\ last = NoCall
  /\ cnfg = << >>
  /\ vres = NotValidated
  /\ red = RedIdle
  /\ ospec = OneSpecIdle
  /\ ppxf = FitIdle
  /\ fm = VectorIdle
  /\ curve = CurveIdle
  /\ fits = FitsIdle
  /\ bhi = BandheadIdle

SpecRegistry == InitRegistry /\ [][NextRegistry]_vars

(***************************************************************************)
(* Calls of apply_reddening                                                *)
(***************************************************************************)

\* Redden: out = apply_reddening(flux, reddening_correction, dispaxis,
\* deredden, ivar); a caller that got arrays back then undoes the operation:
\* it passes them with the same correction and deredden negated.
Redden ==
  /\ red.calls < 2
  /\ red.out.raised = "none"
  /\ LET a == red.args
         r == ApplyReddening(red.heap, a.flux, a.rc, a.dispaxis, a.deredden, a.ivar)
     IN red' = [ heap |-> r.heap, first |-> red.first, calls |-> red.calls + 1,
                 out |-> [raised |-> r.raised, tuple |-> r.tuple,
                          flux |-> r.flux, ivar |-> r.ivar],
                 args |-> IF r.raised = "none"
                          THEN [a EXCEPT !.flux = r.flux, !.ivar = r.ivar,
                                         !.deredden = ~a.deredden]
                          ELSE a ]
  /\ UNCHANGED << raVars, cfgVars, regVars, ospec, ppxf, fm, curve, fits, bhi >>

NextRedden == Redden

\* Any call of a caller, not yet made.
InitRedden ==
  /\ \E c \in ReddeningCalls :
       LET a == [flux |-> c.flux, rc |-> c.rc, ivar |-> c.ivar,
                 dispaxis |-> c.dispaxis, deredden |-> c.deredden]
       IN red = [ heap |-> c.heap, first |-> a, args |-> a, calls |-> 0,
                  out |-> RedIdle.out ]
  /\ obj = NoObject
  /\ fs = [n \in FileNames |-> NoHDU]
  /\ dirExists = FALSE
  /\ drp = [hdu_open |-> FALSE, nspec |-> NSpec]
  /\ last = NoCall
  /\ cnfg = << >>
  /\ vres = NotValidated
  /\ ini_files = << >>
  /\ ares = NotValidated
  /\ ospec = OneSpecIdle
  /\ ppxf = FitIdle
  /\ fm = VectorIdle
  /\ curve = CurveIdle
  /\ fits = FitsIdle
  /\ bhi = BandheadIdle

SpecRedden == InitRedden /\ [][NextRedden]_vars

(***************************************************************************)
(* Calls of examples/one_spec.py                                           *)
(***************************************************************************)

\* CallFitOneSpect: fit_one_spect(plt, ifu, flux, ivar, wave, drpf)
CallFitOneSpect ==
  /\ ~ospec.done /\ ospec.fn = "fit_one_spect"
  /\ ospec' = [ospec EXCEPT !.done = TRUE,
                            !.out = FitOneSpect(FluxFor(ospec.ivar), ospec.ivar)]
  /\ UNCHANGED << raVars, cfgVars, regVars, red, ppxf, fm, curve, fits, bhi >>

\* CallFitBulgeSpec: fit_bulge_spec(plt, ifu, frac, wave, flux, ivar, sres)
CallFitBulgeSpec ==
  /\ ~ospec.done /\ ospec.fn = "fit_bulge_spec"
  /\ ospec' = [ospec EXCEPT !.done = TRUE,
                            !.out = FitBulgeSpec(ospec.frac, FluxFor(ospec.ivar),
                                                 ospec.ivar, ospec.found)]
  /\ UNCHANGED << raVars, cfgVars, regVars, red, ppxf, fm, curve, fits, bhi >>

NextOneSpec == CallFitOneSpect \/ CallFitBulgeSpec

\* Any call of one of the two functions, not yet made.
InitOneSpec ==
  /\ \E fn \in {"fit_one_spect", "fit_bulge_spec"}, v \in IvarInputs :
       \E frac \in (IF fn = "fit_bulge_spec" THEN FracArgs ELSE {<< >>}),
          found \in (IF fn = "fit_bulge_spec" THEN BOOLEAN ELSE {TRUE}) :
         ospec = [ fn |-> fn, frac |-> frac, ivar |-> v, found |-> found,
                   done |-> FALSE, out |-> OneSpecIdle.out ]
  /\ obj = NoObject
  /\ fs = [n \in FileNames |-> NoHDU]
  /\ dirExists = FALSE
  /\ drp = [hdu_open |-> FALSE, nspec |-> NSpec]
  /\ last = NoCall
  /\ cnfg = << >>
  /\ vres = NotValidated
  /\ ini_files = << >>
  /\ ares = NotValidated
  /\ red = RedIdle
  /\ ppxf = FitIdle
  /\ fm = VectorIdle
  /\ curve = CurveIdle
  /\ fits = FitsIdle
  /\ bhi = BandheadIdle

SpecOneSpec == InitOneSpec /\ [][NextOneSpec]_vars

(***************************************************************************)
(* A call of the continuum fitter                                           *)
(***************************************************************************)

\* FitPass: the optimizer runs on the current element; it cannot converge on
\* an element whose inverse variance is all zero.
FitPass ==
  /\ ppxf.pc = "fit"
  /\ \E conv \in (IF ppxf.batch[ppxf.i].zero_ivar THEN {FALSE} ELSE BOOLEAN) :
       ppxf' = FitStep(ppxf, conv)
  /\ UNCHANGED << raVars, cfgVars, regVars, red, ospec, fm, curve, fits, bhi >>

\* Reject: the residuals within the boxcar window flag new pixels.
Reject ==
  /\ ppxf.pc = "reject"
  /\ \E k \in 0 .. (NPixFit - ppxf.nrej) : ppxf' = RejectStep(ppxf, k)
  /\ UNCHANGED << raVars, cfgVars, regVars, red, ospec, fm, curve, fits, bhi >>

\* Store: the result of the current element is written to its slot.
Store ==
  /\ ppxf.pc = "store"
  /\ ppxf' = StoreStep(ppxf)
  /\ UNCHANGED << raVars, cfgVars, regVars, red, ospec, fm, curve, fits, bhi >>

NextFit == FitPass \/ Reject \/ Store

\* A batch and an iteration mode; the first element is about to be fit.
InitFit ==
  /\ \E b \in Batches, mode \in {"none", "wrej"} :
       ppxf = [FitIdle EXCEPT !.batch = b, !.mode = mode, !.i = 1, !.pc = "fit"]
  /\ obj = NoObject
  /\ fs = [n \in FileNames |-> NoHDU]
  /\ dirExists = FALSE
  /\ drp = [hdu_open |-> FALSE, nspec |-> NSpec]
  /\ last = NoCall
  /\ cnfg = << >>
  /\ vres = NotValidated
  /\ ini_files = << >>
  /\ ares = NotValidated
  /\ red = RedIdle
  /\ ospec = OneSpecIdle
  /\ fm = VectorIdle
  /\ curve = CurveIdle
  /\ fits = FitsIdle
  /\ bhi = BandheadIdle

SpecFit == InitFit /\ [][NextFit]_vars

\* The fitter is synchronous: a step that can be taken is taken.
SpecFitFair == InitFit /\ [][NextFit]_vars /\ WF_vars(NextFit)

(***************************************************************************)
(* Calls of the reddening-vector functions                                  *)
(***************************************************************************)

\* CallReddeningVector: reddening_vector(wave, ebv, form, rv, coeffs)
CallReddeningVector ==
  /\ ~fm.done /\ fm.args.fn = "reddening_vector"
  /\ LET a == fm.args IN
       fm' = [fm EXCEPT !.done = TRUE,
                        !.out = ReddeningVector(a.wave, a.ebv, a.form, a.rv, a.coeffs)]
  /\ UNCHANGED << raVars, cfgVars, regVars, red, ospec, ppxf, curve, fits, bhi >>

\* CallReddeningVectorFm: reddening_vector_fm(wave, ebv, rv, coeffs)
CallReddeningVectorFm ==
  /\ ~fm.done /\ fm.args.fn = "reddening_vector_fm"
  /\ LET a == fm.args IN
       fm' = [fm EXCEPT !.done = TRUE,
                        !.out = ReddeningVectorFm(a.wave, a.ebv, a.rv, a.coeffs)]
  /\ UNCHANGED << raVars, cfgVars, regVars, red, ospec, ppxf, curve, fits, bhi >>

NextVector == CallReddeningVector \/ CallReddeningVectorFm

\* Any call, not yet made; reddening_vector_fm has no form.
InitVector ==
  /\ \E a \in VectorCalls :
       /\ a.fn = "reddening_vector_fm" => a.form = "FM"
       /\ fm = [args |-> a, done |-> FALSE, out |-> VectorIdle.out]
  /\ obj = NoObject
  /\ fs = [n \in FileNames |-> NoHDU]
  /\ dirExists = FALSE
  /\ drp = [hdu_open |-> FALSE, nspec |-> NSpec]
  /\ last = NoCall
  /\ cnfg = << >>
  /\ vres = NotValidated
  /\ ini_files = << >>
  /\ ares = NotValidated
  /\ red = RedIdle
  /\ ospec = OneSpecIdle
  /\ ppxf = FitIdle
  /\ curve = CurveIdle
  /\ fits = FitsIdle
  /\ bhi = BandheadIdle

SpecVector == InitVector /\ [][NextVector]_vars

(***************************************************************************)
(* Calls of reddening_vector_calzetti and reddening_vector_ccm               *)
(***************************************************************************)

\* CallCalzetti: reddening_vector_calzetti(wave, ebv)
CallCalzetti ==
  /\ ~curve.done /\ curve.law = "Calzetti"
  /\ curve' = [curve EXCEPT !.done = TRUE, !.out = CalzettiCurve(curve.wave)]
  /\ UNCHANGED << raVars, cfgVars, regVars, red, ospec, ppxf, fm, fits, bhi >>

\* CallCcm: reddening_vector_ccm(wave, ebv)
CallCcm ==
  /\ ~curve.done /\ curve.law = "CCM"
  /\ curve' = [curve EXCEPT !.done = TRUE, !.out = CcmCurve(curve.wave)]
  /\ UNCHANGED << raVars, cfgVars, regVars, red, ospec, ppxf, fm, fits, bhi >>

NextCurve == CallCalzetti \/ CallCcm

\* Any wavelength vector, for either function, not yet called.
InitCurve ==
  /\ \E law \in {"Calzetti", "CCM"} :
       \E w \in WaveVectors(IF law = "Calzetti" THEN CalzettiWaves ELSE CcmWaves) :
         curve = [CurveIdle EXCEPT !.law = law, !.wave = w]
  /\ obj = NoObject
  /\ fs = [n \in FileNames |-> NoHDU]
  /\ dirExists = FALSE
  /\ drp = [hdu_open |-> FALSE, nspec |-> NSpec]
  /\ last = NoCall
  /\ cnfg = << >>
  /\ vres = NotValidated
  /\ ini_files = << >>
  /\ ares = NotValidated
  /\ red = RedIdle
  /\ ospec = OneSpecIdle
  /\ ppxf = FitIdle
  /\ fm = VectorIdle
  /\ fits = FitsIdle
  /\ bhi = BandheadIdle

SpecCurve == InitCurve /\ [][NextCurve]_vars

(***************************************************************************)
(* A caller that writes a spectrum and reads the file back                  *)
(***************************************************************************)

\* CallWriteFits1dSpec: writefits_1dspec(ofile, crval1, cdelt1, flux, clobber)
CallWriteFits1dSpec ==
  /\ fits.pc = "write"
  /\ LET a == fits.args
         w == WriteFits1dSpec(fits.file, a.crval1, a.cdelt1, a.flux, a.clobber)
     IN fits' = [fits EXCEPT !.file = w.file, !.wrote = w.raised, !.pc = "read"]
  /\ UNCHANGED << raVars, cfgVars, regVars, red, ospec, ppxf, fm, curve, bhi >>

\* CallReadFits1dSpec: readfits_1dspec(ofile, log10)
CallReadFits1dSpec ==
  /\ fits.pc = "read"
  /\ fits' = [fits EXCEPT !.out = ReadFits1dSpec(fits.file, fits.args.log10),
                          !.pc = "done"]
  /\ UNCHANGED << raVars, cfgVars, regVars, red, ospec, ppxf, fm, curve, bhi >>

NextFits == CallWriteFits1dSpec \/ CallReadFits1dSpec

\* Any call; the file does not exist or is a file of another writer.
InitFits ==
  /\ \E a \in WriteCalls : \E f \in {NoFits, OtherFile} :
       fits = [FitsIdle EXCEPT !.args = a, !.file = f, !.pc = "write"]
  /\ obj = NoObject
  /\ fs = [n \in FileNames |-> NoHDU]
  /\ dirExists = FALSE
  /\ drp = [hdu_open |-> FALSE, nspec |-> NSpec]
  /\ last = NoCall
  /\ cnfg = << >>
  /\ vres = NotValidated
  /\ ini_files = << >>
  /\ ares = NotValidated
  /\ red = RedIdle
  /\ ospec = OneSpecIdle
  /\ ppxf = FitIdle
  /\ fm = VectorIdle
  /\ curve = CurveIdle
  /\ bhi = BandheadIdle

SpecFits == InitFits /\ [][NextFits]_vars

(***************************************************************************)
(* A caller of BandheadIndexDB.channel_names                                 *)
(***************************************************************************)

\* CallChannelNames: db.channel_names(offset)
CallChannelNames ==
  /\ ~bhi.done /\ bhi.db.size > 0
  /\ bhi' = [bhi EXCEPT !.done = TRUE, !.out = ChannelNames(bhi.db, bhi.offset)]
  /\ UNCHANGED << raVars, cfgVars, regVars, red, ospec, ppxf, fm, curve, fits >>

NextBandhead == CallChannelNames

\* Any database and any offset.
InitBandhead ==
  /\ \E d \in Databases : \E o \in 0 .. MaxOffset :
       bhi = [BandheadIdle EXCEPT !.db = d, !.offset = o]
  /\ obj = NoObject
  /\ fs = [n \in FileNames |-> NoHDU]
  /\ dirExists = FALSE
  /\ drp = [hdu_open |-> FALSE, nspec |-> NSpec]
  /\ last = NoCall
  /\ cnfg = << >>
  /\ vres = NotValidated
  /\ ini_files = << >>
  /\ ares = NotValidated
  /\ red = RedIdle
  /\ ospec = OneSpecIdle
  /\ ppxf = FitIdle
  /\ fm = VectorIdle
  /\ curve = CurveIdle
  /\ fits = FitsIdle

SpecBandhead == InitBandhead /\ [][NextBandhead]_vars

(***************************************************************************)
(* Properties of ReductionAssessment.compute                                *)
(***************************************************************************)

\* The step is a call with a DRPFits object whose output file exists before
\* the call.
FileExistsBefore ==
  /\ last'.drpf = "DRPFits"
  /\ last'.ofile \in DOMAIN fs
  /\ dirExists
  /\ fs[last'.ofile] # NoHDU

\* The last call built an HDUList (it did not read one, and did not raise).
BuiltByLastCall == last.outcome = "ok" /\ ~last.reused

\* C1: when the output file exists and clobber is False, compute makes no
\* sky-coordinate, good-pixel, flux-statistics or covariance call, writes no
\* file, creates no directory, and leaves in hdu the HDUList of the file.
C1_ReuseComputesNothing ==
  [][ (FileExistsBefore /\ ~last'.clobber) =>
        /\ last'.calls = {}
        /\ fs' = fs
        /\ dirExists' = dirExists
        /\ obj'.hdu = fs[last'.ofile]
        /\ last'.reused ]_vars

C1_Witness ==
  /\ last.reused /\ last.outcome = "ok" /\ last.calls = {}
  /\ obj.hdu # NoHDU /\ obj.hdu = fs[last.ofile]

\* C2: in the reuse path a requested pa or ell that differs from the PA or ELL
\* of the file's primary header gives a warning and no exception; pa and ell
\* of the object are then the values of the file; the warning is given exactly
\* when the requested value is not None and differs from the file's value.
C2_MismatchOnlyWarns ==
  [][ (FileExistsBefore /\ ~last'.clobber) =>
        LET hdr == fs[last'.ofile][1].header IN
        /\ last'.outcome = "ok"
        /\ obj'.pa = hdr.PA
        /\ obj'.ell = hdr.ELL
        /\ ("pa_differs" \in last'.warns) <=> (last'.pa # None /\ last'.pa # hdr.PA)
        /\ ("ell_differs" \in last'.warns) <=> (last'.ell # None /\ last'.ell # hdr.ELL)
    ]_vars

C2_Witness ==
  /\ last.reused /\ last.outcome = "ok"
  /\ "pa_differs" \in last.warns /\ "ell_differs" \notin last.warns
  /\ last.pa # None /\ obj.pa # last.pa
  /\ obj.pa = obj.hdu[1].header.PA

\* C3 as claimed: a call that follows a call that returned, with the same
\* arguments and clobber False, computes nothing and leaves the files as they
\* were, for every value of hardcopy.
C3_SecondCallNeverRecomputes ==
  [][ (last.outcome = "ok" /\ SameArgs(last, last') /\ ~last'.clobber) =>
        (last'.calls = {} /\ fs' = fs) ]_vars

\* C3 amended: a call that follows a call that returned, with the same
\* arguments and clobber False, computes nothing, leaves the files as they
\* were and holds the same HDUList as the first call, provided hardcopy is
\* True or the output file existed before the first call.
C3_SecondCallReusesHardcopy ==
  [][ ( /\ last.outcome = "ok" /\ SameArgs(last, last') /\ ~last'.clobber
        /\ (last.hardcopy \/ last.existed) ) =>
        /\ last'.calls = {}
        /\ fs' = fs
        /\ obj'.hdu = obj.hdu
        /\ obj'.hdu = fs'[last'.ofile] ]_vars

C3_Witness ==
  /\ last.repeat /\ last.hardcopy /\ ~last.clobber
  /\ last.reused /\ last.outcome = "ok" /\ obj.hardcopy = TRUE

\* C4 as claimed: after a call with clobber True on an existing output file
\* has returned, the assessments have been recomputed and the file holds the
\* new HDUList, which a following call with clobber False on the same file
\* reads, for every value of hardcopy.
C4_ClobberAlwaysRewrites ==
  [][ ( /\ last.outcome = "ok" /\ last.clobber /\ last.existed
        /\ last'.drpf = "DRPFits" /\ ~last'.clobber /\ last'.ofile = last.ofile ) =>
        /\ last.calls # {}
        /\ fs[last.ofile] = obj.hdu
        /\ obj'.hdu = obj.hdu
        /\ obj'.pa = obj.pa
        /\ obj'.ell = obj.ell ]_vars

\* C4 amended: the same, for a call with clobber True and hardcopy True.
C4_ClobberRewritesHardcopy ==
  [][ ( /\ last.outcome = "ok" /\ last.clobber /\ last.existed /\ last.hardcopy
        /\ last'.drpf = "DRPFits" /\ ~last'.clobber /\ last'.ofile = last.ofile ) =>
        /\ last.calls # {}
        /\ ~last.reused
        /\ fs[last.ofile] = obj.hdu
        /\ obj'.hdu = obj.hdu
        /\ obj'.pa = obj.pa
        /\ obj'.ell = obj.ell
        /\ obj'.pa = obj.hdu[1].header.PA
        /\ obj'.ell = obj.hdu[1].header.ELL ]_vars

C4_Witness ==
  /\ last.after_rewrite /\ ~last.clobber /\ last.reused /\ last.outcome = "ok"
  /\ "pa_differs" \in last.warns

\* C5: a constructor or compute call that raises for its method key or its
\* drpf changes neither the object (drpf, paths, hdu, correlation, pa, ell)
\* nor the files, the directory or the DRP file, and computes nothing; a drpf
\* that is None or not a DRPFits makes compute raise.
C5_FailFast ==
  [][ /\ (last'.outcome \in {"KeyError_method", "ValueError_drpf", "TypeError_drpf"} =>
            /\ obj' = obj
            /\ fs' = fs
            /\ dirExists' = dirExists
            /\ drp' = drp
            /\ last'.calls = {}
            /\ ~last'.opened
            /\ last'.ofile = "None")
      /\ (last'.drpf = "NotDRPFits" => last'.outcome = "TypeError_drpf")
      /\ (last'.op = "compute" /\ last'.drpf = "None" =>
            last'.outcome = "ValueError_drpf") ]_vars

C5_Witness ==
  /\ last.outcome = "TypeError_drpf" /\ last.op = "compute"
  /\ obj.constructed /\ obj.drpf /\ obj.hdu # NoHDU /\ obj.output_file # "None"

\* C8 as claimed: the primary header of every HDUList that compute builds
\* carries the method key, and the PA and ELL with which the elliptical
\* coordinates of its table were computed.
C8_HeaderCarriesKeyPaEll ==
  BuiltByLastCall =>
    LET hdr == obj.hdu[1].header IN
    /\ \E k \in DOMAIN hdr \ {"PA", "ELL"} : hdr[k] = obj.method[1].key
    /\ hdr.PA = obj.hdu[2].ell_coo.pa
    /\ hdr.ELL = obj.hdu[2].ell_coo.ell

\* C17 as claimed: a compute that builds the assessments and was called
\* without pa (without ell) uses 0.0 for the elliptical coordinates and for
\* the PA (ELL) of the header, whatever the object held before.
C17_DefaultPaEllZero ==
  BuiltByLastCall =>
    /\ last.pa = None =>
         /\ obj.pa = 0
         /\ obj.hdu[1].header.PA = 0
         /\ obj.hdu[2].ell_coo.pa = 0
    /\ last.ell = None =>
         /\ obj.ell = 0
         /\ obj.hdu[1].header.ELL = 0
         /\ obj.hdu[2].ell_coo.ell = 0

\* C9: the HDUList that compute builds is PRIMARY, SPECTRUM with drpf.nspec
\* rows, and COVAR exactly when the method has covariance enabled; COVAR has
\* the index and covariance columns, with the variance column before the
\* covariance column exactly when the covariance supplies one; a covariance
\* with a plane column raises ValueError, builds no HDUList and writes nothing.
C9_BuiltLayout ==
  BuiltByLastCall =>
    LET h == obj.hdu
        m == obj.method[1]
    IN /\ Len(h) = IF m.covariance THEN 3 ELSE 2
       /\ h[1].name = "PRIMARY"
       /\ h[2].name = "SPECTRUM"
       /\ h[2].nrows = drp.nspec
       /\ m.covariance =>
            /\ h[3].name = "COVAR"
            /\ obj.correlation \in {"2d", "2dvar"}
            /\ h[3].columns = IF obj.correlation = "2dvar"
                              THEN << "INDX", "VAR", "COVAR" >>
                              ELSE << "INDX", "COVAR" >>

C9_HduLayout ==
  /\ []C9_BuiltLayout
  /\ [][ last'.outcome = "ValueError_plane" =>
           /\ obj'.hdu = obj.hdu
           /\ fs' = fs
           /\ dirExists' = dirExists ]_vars

C9_Witness ==
  /\ BuiltByLastCall /\ obj.method[1].covariance
  /\ Len(obj.hdu) = 3 /\ Len(obj.hdu[3].columns) = 3 /\ obj.hdu[2].nrows = NSpec

\* C10 as claimed: the DRP file object is in the same state after a call as
\* before it.
C10_DrpfUntouched == [][drp' = drp]_vars

\* C10 amended: a call changes the DRP file object only by opening its hdu
\* when it was not open, which it reports with a warning; an open DRP file is
\* left as it was, and so is the DRP file when the call raises for its drpf.
C10_DrpfOnlyOpened ==
  [][ /\ drp'.nspec = drp.nspec
      /\ drp.hdu_open => drp' = drp
      /\ drp' # drp => (drp'.hdu_open /\ "drp_unopened" \in last'.warns)
      /\ last'.drpf # "DRPFits" => drp' = drp ]_vars

C10_Witness ==
  /\ drp.hdu_open /\ "drp_unopened" \in last.warns /\ last.outcome = "ok"

(***************************************************************************)
(* Properties of apply_reddening                                            *)
(***************************************************************************)

\* The arrays of the first call and the arrays returned by the last call.
FirstFlux == red.heap[red.first.flux]
FirstCorr == red.heap[red.first.rc]
FirstIvar == red.heap[red.first.ivar]
OutFlux == red.heap[red.out.flux]
OutIvar == red.heap[red.out.ivar]
\* The flux the first call returned: the first array made after the arrays
\* of the caller.
FirstOutFlux == red.heap[IF red.first.ivar = 0 THEN 3 ELSE 4]
\* The first call has returned arrays.
Returned == red.calls = 1 /\ red.out.raised = "none"
\* The call undoing the first call has returned arrays.
Undone == red.calls = 2 /\ red.out.raised = "none"

\* Element n of array a seen in an array of shape sh (a broadcast to sh).
Seen(a, sh, n) ==
  IF Len(sh) = 1 THEN a.data[n]
  ELSE At(a, ((n - 1) \div sh[2]) + 1, ((n - 1) % sh[2]) + 1)

\* The element of the correction vector r that meets element n of an array of
\* shape sh: r runs along the last axis.
CorrAt(r, sh, n) ==
  IF Len(sh) = 1 THEN r.data[n]
  ELSE r.data[IF r.shape[1] = 1 THEN 1 ELSE ((n - 1) % sh[2]) + 1]

\* The integer x / 2^E of a number x = m * 2^e, E <= e.
Scale(x, E) == x.m * Pow2(x.e - E)
Least(S) == CHOOSE e \in S : \A d \in S : e <= d

\* x1 is x0 up to the rounding of two operations:
\* |x1 - x0| <= |x0| * (2u + u^2), u = 2^-FPrec.
Close(x1, x0) ==
  LET E == Least({x1.e, x0.e})
      a == Scale(x1, E)
      b == Scale(x0, E)
      d == IF a >= b THEN a - b ELSE b - a
  IN d * Pow2(2 * FPrec) <= b * (Pow2(FPrec + 1) + 1)

\* C11: a call of apply_reddening leaves every array that existed before the
\* call as it was, whether it raises or returns, dereddens or reddens, for
\* one- and two-dimensional flux; the arrays it returns are arrays that did
\* not exist before the call.
C11_ArgumentsUnchanged ==
  [][ /\ \A i \in DOMAIN red.heap : red'.heap[i] = red.heap[i]
      /\ red'.out.raised = "none" =>
           /\ red'.out.flux \in DOMAIN red'.heap
           /\ red'.out.flux \notin DOMAIN red.heap
           /\ red'.out.tuple =>
                /\ red'.out.ivar \in DOMAIN red'.heap
                /\ red'.out.ivar \notin DOMAIN red.heap
                /\ red'.out.ivar # red'.out.flux ]_vars

\* A two-dimensional flux has been dereddened with its inverse variance and
\* then reddened again.
C11_Witness ==
  /\ Undone /\ red.out.tuple
  /\ Len(FirstFlux.shape) = 2 /\ Size(FirstFlux.shape) > 1
  /\ red.first.deredden

\* The number of wavelength channels of a flux: the length of its dispersion
\* axis.
Channels(f, dispaxis) ==
  IF Len(f.shape) = 1 THEN f.shape[1] ELSE f.shape[dispaxis + 1]

\* C16: apply_reddening raises ValueError for a correction that is not a
\* vector, an ivar of another shape than flux, a one-dimensional flux of
\* another length than the correction, and a multi-dimensional flux with
\* dispaxis None; for a multi-dimensional flux it never returns when the
\* length of the correction differs from the number of channels of flux.
C16_RejectsMalformed ==
  red.calls = 1 =>
    LET a == red.first
        f == FirstFlux
        r == FirstCorr
        malformed ==
          \/ Len(r.shape) # 1
          \/ a.ivar # 0 /\ FirstIvar.shape # f.shape
          \/ Len(f.shape) = 1 /\ Size(f.shape) # Size(r.shape)
          \/ Len(f.shape) > 1 /\ a.dispaxis = None
    IN /\ malformed => red.out.raised # "none" /\ Len(red.heap) <= 3
       /\ ( /\ ~malformed /\ Len(f.shape) > 1
            /\ Size(r.shape) # Channels(f, a.dispaxis) ) => red.out.raised # "none"

\* The flux the first call returned is, element by element, the flux times
\* the correction when dereddening and the flux over the correction when
\* reddening, each rounded once.
FluxCorrected ==
  \A n \in DOMAIN OutFlux.data :
    LET x == Seen(FirstFlux, OutFlux.shape, n)
        r == CorrAt(FirstCorr, OutFlux.shape, n)
    IN OutFlux.data[n] = IF red.first.deredden THEN FMul(x, r) ELSE FDiv(x, r)

\* The inverse variance the first call returned is, element by element,
\* ivar / r^2 when dereddening and ivar * r^2 when reddening.
IvarPropagated ==
  \A n \in DOMAIN OutIvar.data :
    LET v == Seen(FirstIvar, OutIvar.shape, n)
        r == CorrAt(FirstCorr, OutIvar.shape, n)
    IN OutIvar.data[n] = IF red.first.deredden THEN FDiv(v, FSquare(r))
                                               ELSE FMul(v, FSquare(r))

SN2(x, v) == [m |-> x.m * x.m * v.m, e |-> 2 * x.e + v.e]

\* flux * sqrt(ivar) is the same for every element before and after the first
\* call.
SNUnchanged ==
  \A n \in DOMAIN OutFlux.data :
    LET A == SN2(OutFlux.data[n], OutIvar.data[n])
        B == SN2(Seen(FirstFlux, OutFlux.shape, n), Seen(FirstIvar, OutFlux.shape, n))
        E == Least({A.e, B.e})
    IN Scale(A, E) = Scale(B, E)

\* flux * sqrt(ivar) is the same up to the rounding of the three operations
\* flux * r, r * r and ivar / (r * r): with u = 2^-FPrec the ratio of the
\* squares lies between (1-u)^3/(1+u) and (1+u)^3/(1-u).
SNUnchangedUpToRounding ==
  \A n \in DOMAIN OutFlux.data :
    LET A == SN2(OutFlux.data[n], OutIvar.data[n])
        B == SN2(Seen(FirstFlux, OutFlux.shape, n), Seen(FirstIvar, OutFlux.shape, n))
        E == Least({A.e, B.e})
        a == Scale(A, E)
        b == Scale(B, E)
        U == Pow2(FPrec)
    IN /\ a * (U - 1) * U * U <= b * (U + 1) * (U + 1) * (U + 1)
       /\ a * (U + 1) * U * U >= b * (U - 1) * (U - 1) * (U - 1)

\* What a call returns: the flux alone when ivar is None, the pair when ivar
\* is given.
ReturnsFluxOrPair ==
  /\ red.out.tuple <=> red.first.ivar # 0
  /\ red.out.flux # 0
  /\ red.out.ivar # 0 <=> red.first.ivar # 0

\* C20 as claimed: flux * sqrt(ivar) is exactly unchanged.
C20_ExactSignalToNoise ==
  Returned =>
    /\ ReturnsFluxOrPair
    /\ FluxCorrected
    /\ red.first.ivar # 0 => IvarPropagated /\ SNUnchanged

\* C20: apply_reddening returns the flux alone when ivar is None and the pair
\* (flux, ivar) when ivar is given, dereddening or reddening, for one- and
\* two-dimensional flux; the flux returned does not depend on ivar; the ivar
\* returned is ivar / r^2 when dereddening and ivar * r^2 when reddening, and
\* flux * sqrt(ivar) is unchanged up to the rounding of the operations.
C20_ReturnsFluxAndIvar ==
  Returned =>
    /\ ReturnsFluxOrPair
    /\ FluxCorrected
    /\ red.first.ivar # 0 => IvarPropagated /\ SNUnchangedUpToRounding

\* A two-dimensional flux was reddened with its inverse variance, and
\* flux * sqrt(ivar) of an element changed by the rounding.
C20_Witness ==
  /\ Returned /\ red.out.tuple /\ ~red.first.deredden
  /\ Len(FirstFlux.shape) = 2
  /\ ~SNUnchanged

(***************************************************************************)
(* Properties of examples/one_spec.py                                       *)
(***************************************************************************)

\* The fraction vector is not one value in [0,1] per spectrum; the functions
\* fit one spectrum.
InvalidFrac(frac) ==
  Len(frac) # 1 \/ \E i \in DOMAIN frac : frac[i] < 0 \/ frac[i] > 10

Performed(e) == \E i \in DOMAIN ospec.out.events : ospec.out.events[i] = e

\* C12: fit_bulge_spec called with a fraction vector of the wrong length or
\* with a value outside [0,1] raises the configuration error and has performed
\* no redshift lookup, no template-library construction and no optimizer call.
C12_RejectsFracFirst ==
  (ospec.done /\ ospec.fn = "fit_bulge_spec" /\ InvalidFrac(ospec.frac)) =>
    /\ ospec.out.raised = "ConfigurationError"
    /\ ~Performed("get_redshift")
    /\ ~Performed("TemplateLibrary")
    /\ ~Performed("optimizer")

\* C15: the error vector built by fit_one_spect and fit_bulge_spec has, for
\* every pixel that is not masked and has a positive inverse variance, the
\* value v with v^2 * ivar = 1, not masked; every other pixel (ivar zero,
\* negative, undefined or masked) is masked in it; its shape is the one-row
\* shape (1, npix) of the reshaped flux.
C15_ErrorVector ==
  (ospec.done /\ ospec.out.raised # "IndexError") =>
    LET ivar == ospec.ivar
        ferr == ospec.out.ferr
        npix == Len(ivar.data)
    IN /\ ferr.shape = << 1, npix >>
       /\ ferr.shape = ospec.out.flux.shape
       /\ \A i \in 1 .. npix :
            LET x == ivar.data[i] IN
            IF ~ivar.mask[i] /\ x.k = "num" /\ x.n > 0
            THEN /\ ~ferr.mask[i]
                 /\ ferr.data[i].k = "num"
                 /\ ferr.data[i].n > 0
                 /\ ferr.data[i].n * ferr.data[i].n * x.n
                      = ferr.data[i].d * ferr.data[i].d * x.d
            ELSE ferr.mask[i]

\* fit_bulge_spec has built the error vector of a spectrum with a pixel of
\* zero inverse variance and a pixel of positive inverse variance.
C15_Witness ==
  /\ ospec.done /\ ospec.fn = "fit_bulge_spec" /\ ospec.out.raised = "none"
  /\ Len(ospec.ivar.data) = 2
  /\ ospec.ivar.data[1] = Num(0, 1) /\ ~ospec.ivar.mask[1]
  /\ ospec.ivar.data[2] = Num(1, 4) /\ ~ospec.ivar.mask[2]
  /\ ospec.out.ferr.data[2] = Num(2, 1)

(***************************************************************************)
(* Properties of the continuum fitter                                        *)
(***************************************************************************)

\* C13: the slot of an element whose fit cannot converge (all-zero inverse
\* variance) holds the flagged sentinel; the slot of every other element holds
\* either the sentinel or a converged result of that element alone; a step
\* never changes the slots already written; the fitter never aborts, and when
\* it returns every element of the batch has its slot.
C13_SlotsOfBatch ==
  /\ \A k \in DOMAIN ppxf.results :
       /\ ppxf.batch[k].zero_ivar => ppxf.results[k] = [Sentinel EXCEPT !.fits = 1]
       /\ ppxf.results[k].flag <=> ~ppxf.results[k].conv
       /\ ~ppxf.results[k].flag => ppxf.results[k].el = ppxf.batch[k].id
  /\ ppxf.pc \in {"idle", "fit", "reject", "store", "returned"}
  /\ ppxf.pc = "returned" <=> (ppxf.i > Len(ppxf.batch) /\ ppxf.i > 0)
  /\ ppxf.pc = "returned" => Len(ppxf.results) = Len(ppxf.batch)
  /\ ppxf.pc \in {"fit", "reject", "store"} => Len(ppxf.results) = ppxf.i - 1

C13_FailedElementFlagged ==
  /\ []C13_SlotsOfBatch
  /\ [][\A k \in DOMAIN ppxf.results : ppxf'.results[k] = ppxf.results[k]]_vars

\* The fit of a batch of two has returned: the first element is flagged, the
\* second one has a converged result.
C13_Witness ==
  /\ ppxf.pc = "returned" /\ Len(ppxf.batch) = 2
  /\ ppxf.batch[1].zero_ivar /\ ppxf.results[1].flag
  /\ ~ppxf.results[2].flag /\ ppxf.results[2].el = 2

\* The rejection iteration keeps within its configuration: at most MaxIter
\* passes per element, at most MaxRejected pixels removed, and a slot that is
\* not the sentinel holds a converged fit.
C14_WithinLimits ==
  /\ ppxf.iter <= MaxIter
  /\ ppxf.nrej <= MaxRejected
  /\ \A k \in DOMAIN ppxf.results :
       /\ ppxf.results[k].fits <= MaxIter
       /\ ppxf.results[k].nrej <= MaxRejected
       /\ ppxf.results[k].conv \/ ppxf.results[k] = [Sentinel EXCEPT !.fits = ppxf.results[k].fits]

\* C14: the fit / flag / remask / refit iteration always terminates: the
\* fitter returns; the iteration of an element stops when no new pixel is
\* flagged or the maximum number of passes is reached; the slot holds the last
\* converged result; the pixels removed never exceed the maximum fraction.
C14_Terminates ==
  /\ <>(ppxf.pc = "returned")
  /\ []C14_WithinLimits
  /\ [][ (ppxf.pc = "store" /\ ppxf.good.conv) =>
           /\ ppxf'.results[ppxf.i].conv
           /\ ppxf'.results[ppxf.i].nrej = ppxf.good.nrej ]_vars

\* An element was fit, had a pixel rejected and was fit again without
\* converging: its slot holds the first, converged fit.
C14_Witness ==
  /\ ppxf.pc = "returned"
  /\ \E k \in DOMAIN ppxf.results :
       /\ ppxf.results[k].fits = MaxIter
       /\ ppxf.results[k].conv /\ ppxf.results[k].nrej = 0

(***************************************************************************)
(* Properties of the reddening-vector functions                              *)
(***************************************************************************)

\* C18 as claimed: with a valid wave and ebv, reddening_vector_fm (and
\* reddening_vector with form 'FM') takes any FMExtinctionCoefficients object,
\* also of a derived class, and uses its coefficients; it raises TypeError
\* only for a coeffs that is given and is no FMExtinctionCoefficients; with
\* coeffs None it uses the coefficients of from_Rv for the R_V in use.
C18_AcceptsCoefficients ==
  (fm.done /\ fm.args.form = "FM" /\ CheckShapes(fm.args.wave, fm.args.ebv) = "none") =>
    LET c == fm.args.coeffs IN
    /\ c.cls \in FMClasses => fm.out.raised = "none" /\ fm.out.coeffs = c
    /\ c = NoCoeffs =>
         /\ fm.out.raised = "none"
         /\ fm.out.coeffs = FromRv(IF fm.args.rv = None THEN DefaultFmRv ELSE fm.args.rv)
    /\ fm.out.raised # "none" => c # NoCoeffs /\ c.cls \notin FMClasses

(***************************************************************************)
(* Properties of reddening_vector_calzetti and reddening_vector_ccm          *)
(***************************************************************************)

\* A wavelength inside the open interval (lo, hi) angstroms.
InOpenInterval(w, lo, hi) ==
  w.k = "num" /\ lo * w.d < w.n /\ w.n < hi * w.d

CalzettiDone == curve.done /\ curve.law = "Calzetti"
CcmDone == curve.done /\ curve.law = "CCM"

C22_CcmRanges ==
  CcmDone =>
    \A i \in DOMAIN curve.wave :
      LET w == curve.wave[i]
          k == Wavenumber(w)
      IN /\ curve.out.mask[i] <=> (LessEqual(k, Num(3, 10)) \/ Greater(k, Num(11, 1)))
         /\ ~curve.out.mask[i] => Cardinality(curve.out.by[i]) = 1
         /\ curve.out.mask[i] <=>
              ~(GreaterEqual(w, Num(1000, 1)) /\ LessEqual(w, Num(35000, 1)))

(***************************************************************************)
(* Properties of writefits_1dspec and readfits_1dspec                        *)
(***************************************************************************)

\* The file was written by the call and then read.
RoundTrip == fits.pc = "done" /\ fits.wrote = "none"
\* ... with a flux vector.
RoundTrip1D == RoundTrip /\ Len(fits.args.flux.shape) = 1

\* wave[i] as claimed, i from 0: crval1 + i*cdelt1, 10 to that power with
\* log10.
ClaimedWave(i) ==
  LET w == FAdd(fits.args.crval1, FMul(Round(i, 0), fits.args.cdelt1))
  IN IF fits.args.log10 THEN Power10(w) ELSE w

\* The read raises for a file of several extensions or of data that are not
\* one-dimensional, and returns the flux and n wavelengths otherwise.
ReadRaisesOrReturns ==
  fits.pc = "done" =>
    /\ fits.out.raised # "none" <=> (fits.file.nhdu # 1 \/ fits.file.naxis # 1)
    /\ RoundTrip1D =>
         /\ fits.out.raised = "none"
         /\ fits.out.spec = fits.args.flux.data
         /\ Len(fits.out.wave) = Len(fits.args.flux.data)

\* The decimal digits of v without the trailing zeros are no more than a
\* card holds.
RECURSIVE Significant(_)
Significant(v) == IF v # 0 /\ v % 10 = 0 THEN Significant(v \div 10) ELSE DecLen(v)
Short(x) == Significant(IntValue(x)) <= HeaderDigits

DistinctNames ==
  \A i, j \in 1 .. bhi.db.size : bhi.db.name[i] = bhi.db.name[j] => i = j

\* One entry per feature, the values offset .. offset+size-1, the i-th
\* feature's name (i from 0) mapped to i + offset.
OneEntryPerFeature ==
  /\ Cardinality(bhi.out) = bhi.db.size
  /\ {p[2] : p \in bhi.out} = bhi.offset .. (bhi.offset + bhi.db.size - 1)
  /\ \A i \in 1 .. bhi.db.size : << bhi.db.name[i], (i - 1) + bhi.offset >> \in bhi.out

\* C24 as claimed: channel_names gives one entry per feature for every
\* database, also one in which two features have the same name.
C24_EveryDatabase == bhi.done => OneEntryPerFeature

\* C24 amended: channel_names gives one entry per feature when the names are
\* all different; in general it gives one entry per name, mapped to the
\* number of the last feature of that name.
C24_DistinctNames ==
  bhi.done =>
    /\ DistinctNames => OneEntryPerFeature
    /\ {p[1] : p \in bhi.out} = {bhi.db.name[i] : i \in 1 .. bhi.db.size}
    /\ \A p \in bhi.out :
         \E i \in 1 .. bhi.db.size :
           /\ bhi.db.name[i] = p[1] /\ p[2] = (i - 1) + bhi.offset
           /\ \A j \in 1 .. bhi.db.size : bhi.db.name[j] = p[1] => j <= i

\* channel_names has returned for a database of three different names and
\* the offset 2.
C24_Witness ==
  /\ bhi.done /\ DistinctNames
  /\ bhi.db.size = 3 /\ bhi.offset = 2
  /\ << bhi.db.name[3], 4 >> \in bhi.out

(***************************************************************************)
(* Properties of the method configurations                                  *)
(***************************************************************************)

\* The definitions of the method a configuration gives a value to.
NonNoneDefs(c) == {n \in DefOptions \cap DOMAIN c : c[n] # NoValue}

\* C6: the validation returns only for a configuration with the option key
\* and exactly one of wave_limits, par_file, response_function_file with a
\* value, and then returns a triple with exactly one True, at the place of
\* that option; without key it raises KeyError, and so it does with key and
\* none of the three options; with some of the three but not exactly one with
\* a value it raises ValueError; with a par_file or response_function_file
\* that is no file it raises FileNotFoundError.
C6_ValidateConfig ==
  vres.done =>
    LET present == DefOptions \cap DOMAIN cnfg
        defs == NonNoneDefs(cnfg)
        haskey == "key" \in DOMAIN cnfg
        nofile == \E n \in defs \cap {"par_file", "response_function_file"} :
                    ~IsFileName(cnfg[n])
    IN /\ vres.raised = "none" =>
            /\ haskey
            /\ Cardinality(defs) = 1
            /\ ~nofile
            /\ Cardinality({i \in 1 .. 3 : vres.result[i]}) = 1
            /\ vres.result[1] <=> "wave_limits" \in defs
            /\ vres.result[2] <=> "par_file" \in defs
            /\ vres.result[3] <=> "response_function_file" \in defs
       /\ ~haskey => vres.raised = "KeyError_key"
       /\ (haskey /\ present = {}) => vres.raised = "KeyError_method"
       /\ (haskey /\ present # {} /\ Cardinality(defs) # 1) =>
            vres.raised = "ValueError_method"
       /\ (haskey /\ Cardinality(defs) = 1 /\ nofile) =>
            vres.raised \in {"FileNotFoundError_par_file",
                             "FileNotFoundError_response_function_file"}

C6_Witness ==
  /\ vres.done /\ vres.raised = "none" /\ vres.result = << FALSE, TRUE, FALSE >>
  /\ "response_function_file" \in DOMAIN cnfg

\* A configuration file that defines a method by its wavelength limits.
RangeDefined(c) ==
  /\ "key" \in DOMAIN c
  /\ NonNoneDefs(c) = {"wave_limits"}

====
